---- MODULE Spec2Model ----
(***************************************************************************)
(* python-service-launcher: the supervisor (Launcher.Launch), the RSS      *)
(* watchdog (RSSWatchdog.Run / check / terminateProcess), the grace-period *)
(* SIGKILL goroutine, the signal forwarder (ForwardSignals) and the pid    *)
(* file, as one state machine.  The primary child and the operating        *)
(* system (process table, /proc, signals reaching the supervisor, the      *)
(* ticker) are the environment.  The readiness probe (ReadinessProbe),    *)
(* which Launch does not use, is driven by a caller of its own, and the    *)
(* functions ComputeLimits, readCgroupMemoryLimit, DetectCPUCount,         *)
(* BuildCommandArgs, BuildProcessEnv, SetResourceLimits and MergeConfigs   *)
(* are also applied on their own to bounded inputs, the last three with    *)
(* the steps of Launch that follow them.  A supervisor and a run of the    *)
(* binary in check mode share the pid file in CheckSpec.                   *)
(***************************************************************************)
EXTENDS Integers, Sequences, FiniteSets, TLC

VARIABLES
    pc,            \* position of Launch's goroutine ("test": Launch is not running)
    supStatus,     \* the process holding the goroutines: alive, exited, killed, panicked
    child,         \* the primary child: none, running, zombie, reaped
    pidFile,       \* var/run/<service>.pid: absent or present
    pidWritten,    \* WritePidFile returned nil in this run
    watchdogOn,    \* the condition of launcher.go:204
    limits,        \* MemoryLimits.SoftWarnBytes / HardKillBytes
    ctxDone,       \* the context given to Run is cancelled
    wtChan,        \* the buffered channel watchdogTriggered (capacity 1)
    result,        \* LaunchResult.WatchdogTriggered: "true"/"false", "none" until composed
    wdPc,          \* position of the watchdog goroutine
    wdState,       \* RSSWatchdog.state
    wdRet,         \* what Run returns: "true" once check returned true, "false", or "none"
    readRSS,       \* RSSWatchdog.readRSS: "proc" (readProcessRSS) or "stub" (a test's reader)
    feed,          \* the readings a stub reader returns, in order
    fedCount,      \* readings of feed consumed so far
    grace,         \* the grace-period goroutine: none, sleeping, done
    childAtGrace,  \* the child's status when the grace goroutine woke up
    ctxAtGrace,    \* ctxDone when the grace goroutine woke up
    sigChan,       \* the channel of ForwardSignals (capacity 1)
    fwd,           \* signal subscription: none, installed, closed
    nSignals,      \* signals that reached the supervisor so far
    stateTrace,    \* with a stub reader: RSSWatchdog.state after each completed tick
    softLogs,      \* with a stub reader: "SOFT WARNING" lines logged
    readFailed,    \* a readRSS call returned an error
    checkedAfterCancel, \* check() ran after the context was cancelled
    hardEntries,   \* times the state was set to hard_limit
    termTried,     \* Kill(pid, SIGTERM) calls of the watchdog
    termSent,      \* those that returned nil
    termTick,      \* with a stub reader: the tick on which SIGTERM was sent (0: none)
    childAtTerm,   \* the child's status when the watchdog called Kill(pid, SIGTERM)
    graceScheduled,\* grace goroutines started
    killSent,      \* Kill(pid, SIGKILL) calls of the grace goroutine
    sub,           \* merged.SubProcesses: each sidecar is none, failed, running, zombie or reaped
    memMode,       \* merged.Memory.Mode
    fixedLimitBytes, \* merged.Memory.FixedLimitBytes
    isContainer,   \* merged.IsContainer
    memEnv,        \* the names BuildMemoryEnv put into the child's environment
    childStatus,   \* how the child ended, as cmd.Wait saw it (kind "none" before)
    waitErr,       \* the error cmd.Wait returned: nil, exit (*exec.ExitError) or other
    exitCode,      \* LaunchResult.ExitCode (0 until set, as in Go)
    launchErr,     \* the error Launch returned: "nil" or "error"; "none" while it runs
    limitsErr,     \* the error ComputeLimits returned: nil, detect or config; none before
    fwdStale,      \* the forwarding goroutine called Kill(pid, sig) after cmd.Wait reaped the child
    lostRunning,   \* a signal arrived while the child ran and never reached sigs
    probePc,       \* the caller of a ReadinessProbe: absent, new, started, ready, draining, drained
    probeEnabled,  \* ReadinessConfig.Enabled
    probeFile,     \* ReadinessConfig.FilePath is set
    drainSeconds,  \* ReadinessConfig.DrainSeconds
    ready,         \* ReadinessProbe.ready
    server,        \* ReadinessProbe.server: none, starting, listening, failed or closed
    probeCtx,      \* the context given to ReadinessProbe.Start is cancelled
    shutdownPc,    \* the goroutine of Start that waits for ctx.Done(): none, waiting, done
    drain,         \* the sleep of Drain: none, sleeping, done
    drainElapsed,  \* seconds of that sleep that have passed
    markerFile,    \* the file at FilePath: absent, present, or "write failed" (absent, and SetReady could not create it)
    lastResp,      \* the answer to the latest request, and the caller's position when it was made
    call,          \* a function of launchlib called on its own: its name and arguments
    ret,           \* what that call returned (done is FALSE before it returns)
    runPc,         \* two runs of the launcher binary, "startup" and "check": where each is
    runChild,      \* the primary child of each run: none, running, exited
    runName,       \* the service name each run was started with
    runWrote,      \* WritePidFile of the run returned nil
    pidFiles,      \* var/run/<name>.pid for each name: "none", or the run whose child's pid it holds
    checks         \* runs in check mode so far

vars == <<pc, supStatus, child, pidFile, pidWritten, watchdogOn, limits, ctxDone,
          wtChan, result, wdPc, wdState, wdRet, readRSS, feed, fedCount, grace,
          childAtGrace, ctxAtGrace, sigChan, fwd, nSignals, stateTrace, softLogs,
          readFailed, checkedAfterCancel, hardEntries, termTried, termSent,
          termTick, childAtTerm, graceScheduled, killSent, sub, memMode,
          fixedLimitBytes, isContainer, memEnv, childStatus, waitErr, exitCode,
          launchErr, limitsErr, fwdStale, lostRunning, probePc, probeEnabled,
          probeFile, drainSeconds, ready, server, probeCtx, shutdownPc, drain,
          drainElapsed, markerFile, lastResp, call, ret, runPc, runChild,
          runName, runWrote, pidFiles, checks>>

(***************************************************************************)
(* Bounds of the model.                                                    *)
(***************************************************************************)
MaxRSS == 5        \* the largest RSS reading
MaxDrainSeconds == 2   \* the longest drain period, in seconds
MaxTicks == 4      \* readings a stub reader is given
MaxSignals == 1    \* signals that reach the supervisor in one run
MaxSubs == 1       \* sidecars in merged.SubProcesses
MaxExitCode == 1   \* the largest exit code of the child
MaxSmallLimit == 8 \* the largest of the very small memory limits, in bytes
MaxQuota == 4      \* the largest CPU quota in a cgroup file
MaxOpts == 2       \* the most entries of pythonOpts
MaxArgs == 1       \* the most entries of args
MaxChecks == 1     \* the most runs in check mode

(***************************************************************************)
(* WatchdogState (watchdog.go:30-35).                                      *)
(***************************************************************************)
WatchdogStateHealthy == 0
WatchdogStateSoftWarning == 1
WatchdogStateHardLimit == 2
WatchdogStateTerminating == 3

ReadErr == -1      \* readRSS returned an error

\* The thresholds the watchdog is run with: S = MaxRSS - 3, H = MaxRSS - 1.
SoftWarnBytes == MaxRSS - 3
HardKillBytes == MaxRSS - 1
ManagedLimits == [SoftWarnBytes |-> SoftWarnBytes, HardKillBytes |-> HardKillBytes]
ZeroLimits == [SoftWarnBytes |-> 0, HardKillBytes |-> 0]

RSSValues == {SoftWarnBytes - 1, SoftWarnBytes, SoftWarnBytes + 1,
              HardKillBytes, HardKillBytes + 1}
Signals == {"SIGTERM", "SIGINT", "SIGHUP"}

(***************************************************************************)
(* The operating system, as the code sees it.                              *)
(***************************************************************************)
\* syscall.Kill(pid, sig) == nil: the pid is in the process table (a zombie is).
KillSucceeds(c) == c \in {"running", "zombie"}

\* A liveness check that reports every pid alive.
isProcessAliveAlways(c) == TRUE

\* isProcessAlive: syscall.Kill(pid, 0) == nil.
isProcessAlive(c) == KillSucceeds(c)

\* readProcessRSS: /proc/<pid>/statm of a running process holds its RSS, of a
\* zombie all zeros, and is gone once the child was reaped.
readProcessRSS(c) ==
    IF c = "running" THEN RSSValues
    ELSE IF c = "zombie" THEN {0}
    ELSE {ReadErr}

(***************************************************************************)
(* RSSWatchdog.check after a successful read: the case of its switch that  *)
(* is taken ("hard" calls terminateProcess), the state it assigns and the  *)
(* value it returns.                                                       *)
(***************************************************************************)
\* check without the latch: the hard case is taken whatever the state, and
\* falls through to the final return false like the other cases.
checkNoLatch(state, rss, lim) ==
    IF rss >= lim.HardKillBytes
        THEN [case |-> "hard", state |-> WatchdogStateHardLimit, triggered |-> FALSE]
    ELSE IF rss >= lim.SoftWarnBytes /\ state < WatchdogStateSoftWarning
        THEN [case |-> "soft", state |-> WatchdogStateSoftWarning, triggered |-> FALSE]
    ELSE IF rss < lim.SoftWarnBytes /\ state = WatchdogStateSoftWarning
        THEN [case |-> "recovered", state |-> WatchdogStateHealthy, triggered |-> FALSE]
    ELSE [case |-> "none", state |-> state, triggered |-> FALSE]

check(state, rss, lim) ==
    IF rss >= lim.HardKillBytes /\ state < WatchdogStateHardLimit
        THEN [case |-> "hard", state |-> WatchdogStateHardLimit, triggered |-> TRUE]
    ELSE IF rss >= lim.SoftWarnBytes /\ state < WatchdogStateSoftWarning
        THEN [case |-> "soft", state |-> WatchdogStateSoftWarning, triggered |-> FALSE]
    ELSE IF rss < lim.SoftWarnBytes /\ state = WatchdogStateSoftWarning
        THEN [case |-> "recovered", state |-> WatchdogStateHealthy, triggered |-> FALSE]
    ELSE [case |-> "none", state |-> state, triggered |-> FALSE]

(***************************************************************************)
(* Memory policy (config.go:30-43, MemoryLimiter.ComputeLimits,            *)
(* BuildMemoryEnv).                                                        *)
(***************************************************************************)
MemoryModeCgroupAware == "cgroup-aware"
MemoryModeFixed == "fixed"
MemoryModeUnmanaged == "unmanaged"
\* The three modes and a string that is none of them.
MemoryModes == {MemoryModeCgroupAware, MemoryModeFixed, MemoryModeUnmanaged, "bogus"}

\* What reading the cgroup limit gives: an error, or a limit in bytes.
CgroupReads == {ReadErr, 0, MaxRSS}

\* The watchdog thresholds ComputeLimits derives from a limit: percentages of
\* it, zero for a zero limit.
Thresholds(limit) == IF limit = 0 THEN ZeroLimits ELSE ManagedLimits

\* ComputeLimits: the error it returns ("nil": none; "config": fixed mode
\* without fixedLimitBytes, or an unknown mode; "detect": the cgroup version
\* or limit could not be read) and the limits.
ComputeLimits(mode, fixed, cg) ==
    IF mode = MemoryModeUnmanaged
        THEN [err |-> "nil", limits |-> ZeroLimits]
    ELSE IF mode = MemoryModeFixed
        THEN IF fixed = 0
                THEN [err |-> "config", limits |-> ZeroLimits]
                ELSE [err |-> "nil", limits |-> Thresholds(fixed)]
    ELSE IF mode = MemoryModeCgroupAware
        THEN IF cg = ReadErr
                THEN [err |-> "detect", limits |-> ZeroLimits]
                ELSE [err |-> "nil", limits |-> Thresholds(cg)]
    ELSE [err |-> "config", limits |-> ZeroLimits]

\* BuildMemoryEnv: the names it sets (the malloc and thread-pool names are
\* set alongside these in every mode but unmanaged).
BuildMemoryEnv(mode) ==
    IF mode = MemoryModeUnmanaged THEN {}
    ELSE {"MEMORY_LIMIT_BYTES", "CGROUP_LIMIT_BYTES", "MEMORY_MODE", "PYTHONMALLOC"}

(***************************************************************************)
(* The child's exit status and what cmd.Wait makes of it.                  *)
(***************************************************************************)
ExitStatuses ==
    {[kind |-> "exit", code |-> c] : c \in 0..MaxExitCode} \cup {[kind |-> "signal", code |-> 0]}

\* An exit code that is read without asking whether the child was signalled.
ExitCodeUnchecked(st) == st.code

\* ProcessState.ExitCode: the code of an exited process, -1 for one
\* terminated by a signal.
ExitCode(st) == IF st.kind = "exit" THEN st.code ELSE -1

\* cmd.Wait: nil for a child that exited with 0, an *exec.ExitError carrying
\* the status otherwise.  (main passes os.Stdout as Stdout, a file, so Wait
\* copies no output and has no I/O error of its own to return.)
WaitError(st) ==
    IF st.kind = "exit" /\ st.code = 0
        THEN [kind |-> "nil", code |-> 0]
        ELSE [kind |-> "exit", code |-> ExitCode(st)]

\* The exit code Launch derives from cmd.Wait's error (launcher.go:274-282).
ExitCodeOf(err) ==
    IF err.kind = "nil" THEN 0
    ELSE IF err.kind = "exit" THEN err.code
    ELSE 1

\* No request was made yet.
NoResponse == [path |-> "none", status |-> 0, body |-> "", at |-> "none"]

\* Launch builds no ReadinessProbe: nothing in it calls NewReadinessProbe.
NoReadinessProbe ==
    /\ probePc = "absent"
    /\ probeEnabled = FALSE
    /\ probeFile = FALSE
    /\ drainSeconds = 1
    /\ ready = FALSE
    /\ server = "none"
    /\ probeCtx = FALSE
    /\ shutdownPc = "none"
    /\ drain = "none"
    /\ drainElapsed = 0
    /\ markerFile = "absent"
    /\ lastResp = NoResponse

\* The two runs of the binary and the service names they may be given (the
\* check has none when --service-name is left out).
Runs == {"startup", "check"}
ServiceNames == {"svc", ""}

\* The launcher binary has not been started.
NoRuns ==
    /\ runPc = [r \in Runs |-> "idle"]
    /\ runChild = [r \in Runs |-> "none"]
    /\ runName = [r \in Runs |-> ""]
    /\ runWrote = [r \in Runs |-> FALSE]
    /\ pidFiles = [n \in ServiceNames |-> "none"]
    /\ checks = 0

\* No function is called on its own.
NoCall ==
    /\ call = [fn |-> "none"]
    /\ ret = [done |-> FALSE]

\* What both specifications start from: nothing has run yet.
InitCommon ==
    /\ NoRuns
    /\ supStatus = "alive"
    /\ pidFile = "absent"
    /\ pidWritten = FALSE
    /\ ctxDone = FALSE
    /\ wtChan = <<>>
    /\ result = "none"
    /\ wdState = WatchdogStateHealthy
    /\ wdRet = "none"
    /\ fedCount = 0
    /\ grace = "none"
    /\ childAtGrace = "none"
    /\ ctxAtGrace = FALSE
    /\ sigChan = <<>>
    /\ fwd = "none"
    /\ nSignals = 0
    /\ stateTrace = <<>>
    /\ softLogs = 0
    /\ readFailed = FALSE
    /\ checkedAfterCancel = FALSE
    /\ hardEntries = 0
    /\ termTried = 0
    /\ termSent = 0
    /\ termTick = 0
    /\ childAtTerm = "none"
    /\ graceScheduled = 0
    /\ killSent = 0
    /\ sub = [i \in 1..MaxSubs |-> "none"]
    /\ memEnv = {}
    /\ childStatus = [kind |-> "none", code |-> 0]
    /\ waitErr = [kind |-> "none", code |-> 0]
    /\ exitCode = 0
    /\ launchErr = "none"
    /\ limitsErr = "none"
    /\ fwdStale = FALSE
    /\ lostRunning = FALSE

\* Launch is entered; the configuration it will merge has a memory mode (a
\* fixed limit only matters in mode fixed), the watchdog on or off, and the
\* CONTAINER variable set or not.  The limits are computed in step 2.
Init ==
    /\ InitCommon
    /\ NoReadinessProbe
    /\ NoCall
    /\ pc = "start"
    /\ child = "none"
    /\ wdPc = "none"
    /\ readRSS = "proc"
    /\ feed = <<>>
    /\ limits = ZeroLimits
    /\ watchdogOn \in BOOLEAN
    /\ isContainer \in BOOLEAN
    /\ memMode \in MemoryModes
    /\ fixedLimitBytes \in (IF memMode = MemoryModeFixed THEN {0, MaxRSS} ELSE {0})

wdVars == <<wdPc, wdState, wdRet, fedCount, stateTrace, softLogs, readFailed,
            checkedAfterCancel, hardEntries, termTried, termSent, termTick,
            childAtTerm, graceScheduled>>
graceVars == <<grace, childAtGrace, ctxAtGrace, killSent>>
sigVars == <<sigChan, nSignals, fwdStale, lostRunning>>
cfgVars == <<watchdogOn, limits, readRSS, feed, memMode, fixedLimitBytes, isContainer>>
outVars == <<memEnv, childStatus, waitErr, exitCode, launchErr, limitsErr>>
subVars == <<sub>>
probeVars == <<probePc, probeEnabled, probeFile, drainSeconds, ready, server,
               probeCtx, shutdownPc, drain, drainElapsed, markerFile, lastResp>>
fnVars == <<call, ret>>
runVars == <<runPc, runChild, runName, runWrote, pidFiles, checks>>
launchVars == <<pc, supStatus, child, pidFile, pidWritten, result, ctxDone,
                wtChan, fwd, wdVars, graceVars, sigVars, cfgVars, outVars,
                subVars>>

(***************************************************************************)
(* Launcher.Launch, one action per step of its goroutine.                  *)
(***************************************************************************)
\* The configuration cannot be loaded (step 1), or, after step 2, the
\* directories cannot be created or cmd.Start fails: Launch returns
\* LaunchResult{ExitCode: 1} and an error.
LaunchFail ==
    /\ supStatus = "alive" /\ pc \in {"start", "limits"}
    /\ pc' = "failed"
    /\ exitCode' = 1
    /\ launchErr' = "error"
    /\ UNCHANGED <<supStatus, child, pidFile, pidWritten, result, ctxDone, wtChan, fwd>>
    /\ UNCHANGED <<memEnv, childStatus, waitErr, limitsErr>>
    /\ UNCHANGED <<wdVars, graceVars, sigVars, cfgVars, subVars>>
    /\ UNCHANGED probeVars
    /\ UNCHANGED fnVars
    /\ UNCHANGED runVars

\* A launcher for which every failure of ComputeLimits is fatal.
limitsFailureAlwaysFatal(container) == TRUE

\* Whether a failure of ComputeLimits ends Launch: in a container it does.
limitsFailureFatal(container) == container

\* Step 2: ComputeLimits.  On an error Launch returns exit code 1 in a
\* container; elsewhere it logs a warning, sets the mode to unmanaged and
\* goes on with MemoryLimits{}.
ComputeMemoryLimits ==
    /\ supStatus = "alive" /\ pc = "start"
    /\ \E cg \in CgroupReads :
          LET r == ComputeLimits(memMode, fixedLimitBytes, cg)
          IN  /\ limitsErr' = r.err
              /\ IF r.err # "nil" /\ limitsFailureFatal(isContainer)
                    THEN /\ pc' = "failed"
                         /\ exitCode' = 1
                         /\ launchErr' = "error"
                         /\ UNCHANGED <<memMode, limits>>
                    ELSE /\ pc' = "limits"
                         /\ memMode' = IF r.err # "nil" THEN MemoryModeUnmanaged ELSE memMode
                         /\ limits' = IF r.err # "nil" THEN ZeroLimits ELSE r.limits
                         /\ UNCHANGED <<exitCode, launchErr>>
    /\ UNCHANGED <<supStatus, child, pidFile, pidWritten, result, ctxDone, wtChan, fwd>>
    /\ UNCHANGED <<watchdogOn, readRSS, feed, fixedLimitBytes, isContainer>>
    /\ UNCHANGED <<memEnv, childStatus, waitErr>>
    /\ UNCHANGED <<wdVars, graceVars, sigVars, subVars>>
    /\ UNCHANGED probeVars
    /\ UNCHANGED fnVars
    /\ UNCHANGED runVars

\* Steps 3-6: the environment is built (BuildProcessEnv calls BuildMemoryEnv)
\* and cmd.Start() succeeds.
Spawn ==
    /\ supStatus = "alive" /\ pc = "limits"
    /\ memEnv' = BuildMemoryEnv(memMode)
    /\ child' = "running"
    /\ pc' = "spawned"
    /\ UNCHANGED <<supStatus, pidFile, pidWritten, result, ctxDone, wtChan, fwd>>
    /\ UNCHANGED <<childStatus, waitErr, exitCode, launchErr, limitsErr>>
    /\ UNCHANGED <<wdVars, graceVars, sigVars, cfgVars, subVars>>
    /\ UNCHANGED probeVars
    /\ UNCHANGED fnVars
    /\ UNCHANGED runVars

\* WritePidFile: a failure is logged as a warning; RemovePidFile is deferred.
WritePidFile ==
    /\ supStatus = "alive" /\ pc = "spawned"
    /\ \E ok \in BOOLEAN :
          /\ pidFile' = IF ok THEN "present" ELSE pidFile
          /\ pidWritten' = ok
    /\ pc' = "pidWritten"
    /\ UNCHANGED <<supStatus, child, result, ctxDone, wtChan, fwd>>
    /\ UNCHANGED <<wdVars, graceVars, sigVars, cfgVars, outVars, subVars>>
    /\ UNCHANGED probeVars
    /\ UNCHANGED fnVars
    /\ UNCHANGED runVars

\* A launcher that starts the watchdog whenever it is enabled.
watchdogStartsIfEnabled(mode, enabled) == enabled

\* The condition of launcher.go:204: the mode is not unmanaged and
\* merged.Watchdog.Enabled is set and true.
watchdogStarts(mode, enabled) == mode # MemoryModeUnmanaged /\ enabled

\* Step 7: start the watchdog goroutine, or put false into watchdogTriggered.
StartWatchdog ==
    /\ supStatus = "alive" /\ pc = "pidWritten"
    /\ IF watchdogStarts(memMode, watchdogOn)
          THEN /\ wdPc' = "run"
               /\ UNCHANGED wtChan
          ELSE /\ wtChan' = Append(wtChan, "false")
               /\ UNCHANGED wdPc
    /\ pc' = "watchdogStarted"
    /\ UNCHANGED <<supStatus, child, pidFile, pidWritten, result, ctxDone, fwd>>
    /\ UNCHANGED <<wdState, wdRet, fedCount, stateTrace, softLogs, readFailed,
                   checkedAfterCancel, hardEntries, termTried, termSent, termTick,
                   childAtTerm, graceScheduled>>
    /\ UNCHANGED <<graceVars, sigVars, cfgVars, outVars, subVars>>
    /\ UNCHANGED probeVars
    /\ UNCHANGED fnVars
    /\ UNCHANGED runVars

\* Step 8: ForwardSignals(pid): signal.Notify and the forwarding goroutine.
ForwardSignals ==
    /\ supStatus = "alive" /\ pc = "watchdogStarted"
    /\ fwd' = "installed"
    /\ pc' = "forwarding"
    /\ UNCHANGED <<supStatus, child, pidFile, pidWritten, result, ctxDone, wtChan>>
    /\ UNCHANGED <<wdVars, graceVars, sigVars, cfgVars, outVars, subVars>>
    /\ UNCHANGED probeVars
    /\ UNCHANGED fnVars
    /\ UNCHANGED runVars

\* Step 9: the subprocess loop.  A sidecar whose Start fails is logged and
\* skipped (continue); the others are appended to subCmds.
StartSubProcesses ==
    /\ supStatus = "alive" /\ pc = "forwarding"
    /\ \E started \in [1..MaxSubs -> BOOLEAN] :
          sub' = [i \in 1..MaxSubs |-> IF started[i] THEN "running" ELSE "failed"]
    /\ pc' = "waiting"
    /\ UNCHANGED <<supStatus, child, pidFile, pidWritten, result, ctxDone, wtChan, fwd>>
    /\ UNCHANGED <<wdVars, graceVars, sigVars, cfgVars, outVars>>
    /\ UNCHANGED probeVars
    /\ UNCHANGED fnVars
    /\ UNCHANGED runVars

\* Step 10: cmd.Wait() returns once the child has exited, and reaps it.
Wait ==
    /\ supStatus = "alive" /\ pc = "waiting"
    /\ child = "zombie"
    /\ child' = "reaped"
    /\ \E st \in ExitStatuses :
          /\ childStatus' = st
          /\ waitErr' = WaitError(st)
    /\ pc' = "waited"
    /\ UNCHANGED <<supStatus, pidFile, pidWritten, result, ctxDone, wtChan, fwd>>
    /\ UNCHANGED <<memEnv, exitCode, launchErr, limitsErr>>
    /\ UNCHANGED <<wdVars, graceVars, sigVars, cfgVars, subVars>>
    /\ UNCHANGED probeVars
    /\ UNCHANGED fnVars
    /\ UNCHANGED runVars

\* watchdogCancel() after Wait (launcher.go:249).
CancelWatchdog ==
    /\ supStatus = "alive" /\ pc = "waited"
    /\ ctxDone' = TRUE
    /\ pc' = "cleanup"
    /\ UNCHANGED <<supStatus, child, pidFile, pidWritten, result, wtChan, fwd>>
    /\ UNCHANGED <<wdVars, graceVars, sigVars, cfgVars, outVars, subVars>>
    /\ UNCHANGED probeVars
    /\ UNCHANGED fnVars
    /\ UNCHANGED runVars

\* A cleanup that waits only for the sidecars it could still kill.
reapRunningOnly(s) == IF s = "running" THEN "reaped" ELSE s

\* subCmd.Process.Kill() then subCmd.Wait() on one entry of subCmds: the
\* sidecar is reaped whether it was still running or had exited already.
killAndReap(s) == IF s \in {"running", "zombie"} THEN "reaped" ELSE s

\* Kill and reap the subprocesses (the loop over subCmds).
CleanupSubProcesses ==
    /\ supStatus = "alive" /\ pc = "cleanup"
    /\ sub' = [i \in 1..MaxSubs |-> killAndReap(sub[i])]
    /\ pc' = "result"
    /\ UNCHANGED <<supStatus, child, pidFile, pidWritten, result, ctxDone, wtChan, fwd>>
    /\ UNCHANGED <<wdVars, graceVars, sigVars, cfgVars, outVars>>
    /\ UNCHANGED probeVars
    /\ UNCHANGED fnVars
    /\ UNCHANGED runVars

\* The result is composed: the non-blocking receive from watchdogTriggered
\* (launcher.go:267-272), the exit code from cmd.Wait's error, a nil error.
ReadWatchdogTriggered ==
    /\ supStatus = "alive" /\ pc = "result"
    /\ IF wtChan # <<>>
          THEN /\ result' = Head(wtChan)
               /\ wtChan' = Tail(wtChan)
          ELSE /\ result' = "false"
               /\ UNCHANGED wtChan
    /\ exitCode' = ExitCodeOf(waitErr)
    /\ launchErr' = "nil"
    /\ pc' = "deferClose"
    /\ UNCHANGED <<supStatus, child, pidFile, pidWritten, ctxDone, fwd>>
    /\ UNCHANGED <<memEnv, childStatus, waitErr, limitsErr>>
    /\ UNCHANGED <<wdVars, graceVars, sigVars, cfgVars, subVars>>
    /\ UNCHANGED probeVars
    /\ UNCHANGED fnVars
    /\ UNCHANGED runVars

\* The deferred calls run last in, first out: close(sigChan) ...
DeferCloseSigChan ==
    /\ supStatus = "alive" /\ pc = "deferClose"
    /\ fwd' = "closed"
    /\ pc' = "deferCancel"
    /\ UNCHANGED <<supStatus, child, pidFile, pidWritten, result, ctxDone, wtChan>>
    /\ UNCHANGED <<wdVars, graceVars, sigVars, cfgVars, outVars, subVars>>
    /\ UNCHANGED probeVars
    /\ UNCHANGED fnVars
    /\ UNCHANGED runVars

\* ... watchdogCancel() ...
DeferWatchdogCancel ==
    /\ supStatus = "alive" /\ pc = "deferCancel"
    /\ ctxDone' = TRUE
    /\ pc' = "deferRemove"
    /\ UNCHANGED <<supStatus, child, pidFile, pidWritten, result, wtChan, fwd>>
    /\ UNCHANGED <<wdVars, graceVars, sigVars, cfgVars, outVars, subVars>>
    /\ UNCHANGED probeVars
    /\ UNCHANGED fnVars
    /\ UNCHANGED runVars

\* ... RemovePidFile(pidPath); then Launch returns.
RemovePidFile ==
    /\ supStatus = "alive" /\ pc = "deferRemove"
    /\ pidFile' = "absent"
    /\ pc' = "returned"
    /\ UNCHANGED <<supStatus, child, pidWritten, result, ctxDone, wtChan, fwd>>
    /\ UNCHANGED <<wdVars, graceVars, sigVars, cfgVars, outVars, subVars>>
    /\ UNCHANGED probeVars
    /\ UNCHANGED fnVars
    /\ UNCHANGED runVars

\* main: os.Exit(exitCode) after Launch returned.
ProcessExit ==
    /\ supStatus = "alive" /\ pc \in {"returned", "failed"}
    /\ supStatus' = "exited"
    /\ UNCHANGED <<pc, child, pidFile, pidWritten, result, ctxDone, wtChan, fwd>>
    /\ UNCHANGED <<wdVars, graceVars, sigVars, cfgVars, outVars, subVars>>
    /\ UNCHANGED probeVars
    /\ UNCHANGED fnVars
    /\ UNCHANGED runVars

(***************************************************************************)
(* RSSWatchdog.Run, in the goroutine of launcher.go:206-209 or called by a *)
(* test with its own reader and context.                                   *)
(***************************************************************************)
\* Run's guard clause, then time.NewTicker.
RunBegin ==
    /\ supStatus = "alive" /\ wdPc = "run"
    /\ IF limits.HardKillBytes = 0
          THEN /\ wdRet' = "false"
               /\ wdPc' = "report"
          ELSE /\ wdPc' = "select"
               /\ UNCHANGED wdRet
    /\ UNCHANGED <<pc, supStatus, child, pidFile, pidWritten, result, ctxDone, wtChan, fwd>>
    /\ UNCHANGED <<wdState, fedCount, stateTrace, softLogs, readFailed,
                   checkedAfterCancel, hardEntries, termTried, termSent, termTick,
                   childAtTerm, graceScheduled>>
    /\ UNCHANGED <<graceVars, sigVars, cfgVars, outVars, subVars>>
    /\ UNCHANGED probeVars
    /\ UNCHANGED fnVars
    /\ UNCHANGED runVars

\* Run reporting a cancellation as a trigger.
RunOnDoneTrue == "true"

\* What Run returns when select chose <-ctx.Done().
RunOnDone == "false"

\* select chose <-ctx.Done().
RunCtxDone ==
    /\ supStatus = "alive" /\ wdPc = "select"
    /\ ctxDone
    /\ wdRet' = RunOnDone
    /\ wdPc' = "report"
    /\ UNCHANGED <<pc, supStatus, child, pidFile, pidWritten, result, ctxDone, wtChan, fwd>>
    /\ UNCHANGED <<wdState, fedCount, stateTrace, softLogs, readFailed,
                   checkedAfterCancel, hardEntries, termTried, termSent, termTick,
                   childAtTerm, graceScheduled>>
    /\ UNCHANGED <<graceVars, sigVars, cfgVars, outVars, subVars>>
    /\ UNCHANGED probeVars
    /\ UNCHANGED fnVars
    /\ UNCHANGED runVars

\* w.readRSS(w.pid): readProcessRSS, or the next reading of a test's reader.
ReadRSS ==
    IF readRSS = "proc" THEN readProcessRSS(child) ELSE {feed[fedCount + 1]}

\* select chose <-ticker.C (the ticker fires at any time while Run selects):
\* check() reads the RSS and runs its switch.  When it returns false Run
\* selects again; in the hard-limit case the state is set and
\* terminateProcess is called next.
RunTick ==
    /\ supStatus = "alive" /\ wdPc = "select"
    /\ readRSS = "stub" => fedCount < Len(feed)
    /\ checkedAfterCancel' = (checkedAfterCancel \/ ctxDone)
    /\ fedCount' = IF readRSS = "stub" THEN fedCount + 1 ELSE fedCount
    /\ \E rss \in ReadRSS :
          IF rss = ReadErr
             THEN /\ readFailed' = TRUE
                  /\ wdPc' = "select"
                  /\ stateTrace' = IF readRSS = "stub"
                                      THEN Append(stateTrace, wdState) ELSE stateTrace
                  /\ UNCHANGED <<wdState, wdRet, softLogs, hardEntries>>
             ELSE LET r == check(wdState, rss, limits)
                      hard == r.case = "hard"
                  IN  /\ wdState' = r.state
                      /\ hardEntries' = IF hard THEN hardEntries + 1 ELSE hardEntries
                      /\ softLogs' = IF r.case = "soft" /\ readRSS = "stub"
                                        THEN softLogs + 1 ELSE softLogs
                      /\ wdPc' = IF hard THEN "terminate" ELSE "select"
                      /\ wdRet' = IF r.triggered THEN "true" ELSE wdRet
                      /\ stateTrace' = IF ~hard /\ readRSS = "stub"
                                          THEN Append(stateTrace, r.state) ELSE stateTrace
                      /\ UNCHANGED readFailed
    /\ UNCHANGED <<pc, supStatus, child, pidFile, pidWritten, result, ctxDone, wtChan, fwd>>
    /\ UNCHANGED <<termTried, termSent, termTick, childAtTerm, graceScheduled>>
    /\ UNCHANGED <<graceVars, sigVars, cfgVars, outVars, subVars>>
    /\ UNCHANGED probeVars
    /\ UNCHANGED fnVars
    /\ UNCHANGED runVars

\* terminateProcess without the return on a failed SIGTERM.
graceAfterKillAlways(ok) == TRUE

\* Whether terminateProcess starts the grace goroutine, given whether
\* Kill(pid, SIGTERM) returned nil: on an error it logs and returns.
graceAfterKill(ok) == ok

\* terminateProcess; then check returns, and Run returns true if check did
\* (wdRet holds check's result since the tick) and selects again if not.
terminateProcess ==
    /\ supStatus = "alive" /\ wdPc = "terminate"
    /\ wdState' = WatchdogStateTerminating
    /\ stateTrace' = IF readRSS = "stub"
                        THEN Append(stateTrace, WatchdogStateTerminating) ELSE stateTrace
    /\ termTried' = termTried + 1
    /\ childAtTerm' = child
    /\ termSent' = IF KillSucceeds(child) THEN termSent + 1 ELSE termSent
    /\ termTick' = IF KillSucceeds(child) THEN fedCount ELSE termTick
    /\ IF graceAfterKill(KillSucceeds(child))
          THEN /\ graceScheduled' = graceScheduled + 1
               /\ grace' = "sleeping"
          ELSE UNCHANGED <<graceScheduled, grace>>
    /\ wdPc' = IF wdRet = "true" THEN "report" ELSE "select"
    /\ UNCHANGED <<pc, supStatus, child, pidFile, pidWritten, result, ctxDone, wtChan, fwd>>
    /\ UNCHANGED <<wdRet, fedCount, softLogs, readFailed, checkedAfterCancel, hardEntries>>
    /\ UNCHANGED <<childAtGrace, ctxAtGrace, killSent, sigVars, cfgVars, outVars, subVars>>
    /\ UNCHANGED probeVars
    /\ UNCHANGED fnVars
    /\ UNCHANGED runVars

\* watchdogTriggered <- triggered (the channel has room: nothing else sends).
ReportTriggered ==
    /\ supStatus = "alive" /\ wdPc = "report"
    /\ pc # "test"
    /\ Len(wtChan) < 1
    /\ wtChan' = Append(wtChan, wdRet)
    /\ wdPc' = "done"
    /\ UNCHANGED <<pc, supStatus, child, pidFile, pidWritten, result, ctxDone, fwd>>
    /\ UNCHANGED <<wdState, wdRet, fedCount, stateTrace, softLogs, readFailed,
                   checkedAfterCancel, hardEntries, termTried, termSent, termTick,
                   childAtTerm, graceScheduled>>
    /\ UNCHANGED <<graceVars, sigVars, cfgVars, outVars, subVars>>
    /\ UNCHANGED probeVars
    /\ UNCHANGED fnVars
    /\ UNCHANGED runVars

\* A grace goroutine that gives up when the context is cancelled.
GraceWakesUnlessCancelled == supStatus = "alive" /\ grace = "sleeping" /\ ~ctxDone

\* time.Sleep(grace) returns in the goroutine of terminateProcess: nothing
\* but the end of the process stops it.
GraceWakes == supStatus = "alive" /\ grace = "sleeping"

\* The grace goroutine: SIGKILL if the signal-0 check finds the process.
GraceExpired ==
    /\ GraceWakes
    /\ grace' = "done"
    /\ childAtGrace' = child
    /\ ctxAtGrace' = ctxDone
    /\ killSent' = IF isProcessAlive(child) THEN killSent + 1 ELSE killSent
    /\ UNCHANGED <<pc, supStatus, child, pidFile, pidWritten, result, ctxDone, wtChan, fwd>>
    /\ UNCHANGED <<wdVars, sigVars, cfgVars, outVars, subVars>>
    /\ UNCHANGED probeVars
    /\ UNCHANGED fnVars
    /\ UNCHANGED runVars

(***************************************************************************)
(* Signals reaching the supervisor, and the goroutine of ForwardSignals.   *)
(***************************************************************************)
\* SIGTERM, SIGINT or SIGHUP arrives.  Without signal.Notify the Go runtime
\* ends the process; with it the signal is sent to sigs without blocking (and
\* dropped when the channel is full); sending on the closed channel panics.
SignalArrives ==
    /\ supStatus = "alive"
    /\ nSignals < MaxSignals
    /\ nSignals' = nSignals + 1
    /\ \E sig \in Signals :
          CASE fwd = "none" ->
                  /\ supStatus' = "killed"
                  /\ UNCHANGED sigChan
            [] fwd = "installed" ->
                  /\ sigChan' = IF Len(sigChan) < 1 THEN Append(sigChan, sig) ELSE sigChan
                  /\ UNCHANGED supStatus
            [] fwd = "closed" ->
                  /\ supStatus' = "panicked"
                  /\ UNCHANGED sigChan
    /\ lostRunning' = (lostRunning \/
                          (child = "running" /\ ~(fwd = "installed" /\ Len(sigChan) < 1)))
    /\ UNCHANGED fwdStale
    /\ UNCHANGED <<pc, child, pidFile, pidWritten, result, ctxDone, wtChan, fwd>>
    /\ UNCHANGED <<wdVars, graceVars, cfgVars, outVars, subVars>>
    /\ UNCHANGED probeVars
    /\ UNCHANGED fnVars
    /\ UNCHANGED runVars

\* for sig := range sigs { syscall.Kill(pid, sig) }
ForwardOne ==
    /\ supStatus = "alive"
    /\ fwd # "none"
    /\ sigChan # <<>>
    /\ sigChan' = Tail(sigChan)
    /\ fwdStale' = (fwdStale \/ child = "reaped")
    /\ UNCHANGED <<pc, supStatus, child, pidFile, pidWritten, result, ctxDone, wtChan, fwd>>
    /\ UNCHANGED <<wdVars, graceVars, nSignals, lostRunning, cfgVars, outVars, subVars>>
    /\ UNCHANGED probeVars
    /\ UNCHANGED fnVars
    /\ UNCHANGED runVars

(***************************************************************************)
(* The primary child.                                                      *)
(***************************************************************************)
\* The child exits (on its own, or from a signal) and stays a zombie until
\* cmd.Wait reaps it.
ChildExit ==
    /\ child = "running"
    /\ child' = "zombie"
    /\ UNCHANGED <<pc, supStatus, pidFile, pidWritten, result, ctxDone, wtChan, fwd>>
    /\ UNCHANGED <<wdVars, graceVars, sigVars, cfgVars, outVars, subVars>>
    /\ UNCHANGED probeVars
    /\ UNCHANGED fnVars
    /\ UNCHANGED runVars

\* A sidecar exits on its own; it stays a zombie until Launch waits for it.
SubProcessExit ==
    /\ \E i \in 1..MaxSubs :
          /\ sub[i] = "running"
          /\ sub' = [sub EXCEPT ![i] = "zombie"]
    /\ UNCHANGED <<pc, supStatus, child, pidFile, pidWritten, result, ctxDone, wtChan, fwd>>
    /\ UNCHANGED <<wdVars, graceVars, sigVars, cfgVars, outVars>>
    /\ UNCHANGED probeVars
    /\ UNCHANGED fnVars
    /\ UNCHANGED runVars

(***************************************************************************)
(* A test of the watchdog: Run is called directly with a stub reader       *)
(* (RSSWatchdog.readRSS, "For testing") that is fed a sequence of          *)
(* readings, and with a context the test may cancel.                       *)
(***************************************************************************)
Feeds == UNION {[1..n -> RSSValues] : n \in 0..MaxTicks}

InitWatchdogTest ==
    /\ InitCommon
    /\ NoReadinessProbe
    /\ NoCall
    /\ pc = "test"
    /\ child = "running"
    /\ wdPc = "run"
    /\ readRSS = "stub"
    /\ feed \in Feeds
    /\ watchdogOn = TRUE
    /\ limits = ManagedLimits
    /\ memMode = MemoryModeCgroupAware
    /\ fixedLimitBytes = 0
    /\ isContainer = FALSE

\* The caller of Run cancels its context.
TestCancel ==
    /\ pc = "test" /\ ~ctxDone
    /\ ctxDone' = TRUE
    /\ UNCHANGED <<pc, supStatus, child, pidFile, pidWritten, result, wtChan, fwd>>
    /\ UNCHANGED <<wdVars, graceVars, sigVars, cfgVars, outVars, subVars>>
    /\ UNCHANGED probeVars
    /\ UNCHANGED fnVars
    /\ UNCHANGED runVars

Next ==
    \/ LaunchFail
    \/ ComputeMemoryLimits
    \/ Spawn
    \/ WritePidFile
    \/ StartWatchdog
    \/ ForwardSignals
    \/ StartSubProcesses
    \/ Wait
    \/ CancelWatchdog
    \/ CleanupSubProcesses
    \/ ReadWatchdogTriggered
    \/ DeferCloseSigChan
    \/ DeferWatchdogCancel
    \/ RemovePidFile
    \/ ProcessExit
    \/ RunBegin
    \/ RunCtxDone
    \/ RunTick
    \/ terminateProcess
    \/ ReportTriggered
    \/ GraceExpired
    \/ SignalArrives
    \/ ForwardOne
    \/ ChildExit
    \/ SubProcessExit

\* A run of Launch with its goroutines, the child and the signals.
Spec == Init /\ [][Next]_vars

\* Launch entered with a configuration that calls for the watchdog: mode
\* cgroup-aware, the watchdog enabled, outside a container.
InitWatched ==
    /\ Init
    /\ memMode = MemoryModeCgroupAware
    /\ watchdogOn
    /\ ~isContainer

\* Such a run, with the scheduling Go guarantees the watchdog goroutine: a
\* select whose ctx.Done() case stays ready takes it eventually.
FairSpec == InitWatched /\ [][Next]_vars /\ WF_vars(RunCtxDone)

NextWatchdogTest ==
    \/ RunBegin
    \/ RunCtxDone
    \/ RunTick
    \/ terminateProcess
    \/ GraceExpired
    \/ TestCancel
    \/ ChildExit

\* A run of the watchdog alone, fed a sequence of readings.
WatchdogSpec == InitWatchdogTest /\ [][NextWatchdogTest]_vars

(***************************************************************************)
(* The readiness probe (ReadinessProbe), driven by a caller: Launch does   *)
(* not use it.  The caller builds the probe, calls Start, may call         *)
(* SetReady, and calls Drain; it may cancel the context it gave to Start   *)
(* at any moment.  Clients send requests to the port at any moment.        *)
(***************************************************************************)
HTTPPath == "/ready"
Paths == {HTTPPath, "/", "/health"}

\* The handler registered for HTTPPath.  A handler that ignores the flag.
HandlerAlwaysOK(rdy) == [status |-> 200, body |-> "OK"]

\* The handler registered for HTTPPath (launcher.go:392-400).
Handler(rdy) ==
    IF rdy THEN [status |-> 200, body |-> "OK"]
           ELSE [status |-> 503, body |-> "NOT READY"]

\* The ServeMux of Start: one pattern, HTTPPath, without a trailing slash, so
\* it matches that path only; http.NotFound answers every other path.
ServeMux(path, rdy) ==
    IF path = HTTPPath THEN Handler(rdy)
                       ELSE [status |-> 404, body |-> "404 page not found"]

\* What a client gets: an answer of the mux while the server listens, no
\* connection otherwise.
Answer(path, srv, rdy) ==
    IF srv = "listening" THEN ServeMux(path, rdy)
                         ELSE [status |-> 0, body |-> "connection refused"]

\* NewReadinessProbe: the probe as constructed, ready false, no server.  A
\* DrainSeconds of 0 is replaced by the default, so the period is positive.
InitReadiness ==
    /\ InitCommon
    /\ NoCall
    /\ pc = "probe"
    /\ child = "none"
    /\ wdPc = "none"
    /\ readRSS = "proc"
    /\ feed = <<>>
    /\ limits = ZeroLimits
    /\ watchdogOn = FALSE
    /\ isContainer = FALSE
    /\ memMode = MemoryModeUnmanaged
    /\ fixedLimitBytes = 0
    /\ probePc = "new"
    /\ probeEnabled \in BOOLEAN
    /\ probeFile \in BOOLEAN
    /\ drainSeconds \in 1..MaxDrainSeconds
    /\ ready = FALSE
    /\ server = "none"
    /\ probeCtx = FALSE
    /\ shutdownPc = "none"
    /\ drain = "none"
    /\ drainElapsed = 0
    /\ markerFile = "absent"
    /\ lastResp = NoResponse

\* ReadinessProbe.Start: nothing when the probe is disabled; otherwise the
\* server is built and two goroutines are started, one that listens and one
\* that waits for the context.
ProbeStart ==
    /\ probePc = "new"
    /\ probePc' = "started"
    /\ IF probeEnabled
          THEN server' = "starting" /\ shutdownPc' = "waiting"
          ELSE UNCHANGED <<server, shutdownPc>>
    /\ UNCHANGED <<probeEnabled, probeFile, drainSeconds, ready, probeCtx,
                   drain, drainElapsed, markerFile, lastResp>>
    /\ UNCHANGED launchVars
    /\ UNCHANGED fnVars
    /\ UNCHANGED runVars

\* The first goroutine of Start: ListenAndServe binds the port, or fails
\* (the port is taken) and the failure is logged.  After Shutdown it returns
\* ErrServerClosed without listening.
ListenAndServe ==
    /\ server = "starting"
    /\ \E ok \in BOOLEAN : server' = IF ok THEN "listening" ELSE "failed"
    /\ UNCHANGED <<probePc, probeEnabled, probeFile, drainSeconds, ready,
                   probeCtx, shutdownPc, drain, drainElapsed, markerFile,
                   lastResp>>
    /\ UNCHANGED launchVars
    /\ UNCHANGED fnVars
    /\ UNCHANGED runVars

\* The caller cancels the context it gave, or will give, to Start.
ProbeCancel ==
    /\ probePc # "absent" /\ ~probeCtx
    /\ probeCtx' = TRUE
    /\ UNCHANGED <<probePc, probeEnabled, probeFile, drainSeconds, ready,
                   server, shutdownPc, drain, drainElapsed, markerFile,
                   lastResp>>
    /\ UNCHANGED launchVars
    /\ UNCHANGED fnVars
    /\ UNCHANGED runVars

\* The second goroutine of Start: once the context is done it shuts the
\* server down, whatever Drain is doing.
ShutdownServer ==
    /\ shutdownPc = "waiting" /\ probeCtx
    /\ shutdownPc' = "done"
    /\ server' = IF server = "failed" THEN "failed" ELSE "closed"
    /\ UNCHANGED <<probePc, probeEnabled, probeFile, drainSeconds, ready,
                   probeCtx, drain, drainElapsed, markerFile, lastResp>>
    /\ UNCHANGED launchVars
    /\ UNCHANGED fnVars
    /\ UNCHANGED runVars

\* ReadinessProbe.SetReady: the flag is set, and the marker file written when
\* a path is configured (a failed write is logged).
SetReady ==
    /\ probePc = "started"
    /\ probePc' = "ready"
    /\ ready' = TRUE
    /\ IF probeFile
          THEN \E ok \in BOOLEAN :
                  markerFile' = IF ok \/ markerFile = "present"
                                   THEN "present" ELSE "write failed"
          ELSE UNCHANGED markerFile
    /\ UNCHANGED <<probeEnabled, probeFile, drainSeconds, server, probeCtx,
                   shutdownPc, drain, drainElapsed, lastResp>>
    /\ UNCHANGED launchVars
    /\ UNCHANGED fnVars
    /\ UNCHANGED runVars

\* ReadinessProbe.Drain up to its sleep: it returns at once when the probe is
\* disabled; otherwise the flag is cleared, the marker file removed and the
\* sleep of DrainSeconds begins.
Drain ==
    /\ probePc \in {"started", "ready"}
    /\ IF ~probeEnabled
          THEN /\ probePc' = "drained"
               /\ UNCHANGED <<ready, markerFile, drain, drainElapsed>>
          ELSE /\ probePc' = "draining"
               /\ ready' = FALSE
               /\ markerFile' = IF probeFile THEN "absent" ELSE markerFile
               /\ drain' = "sleeping"
               /\ drainElapsed' = 0
    /\ UNCHANGED <<probeEnabled, probeFile, drainSeconds, server, probeCtx,
                   shutdownPc, lastResp>>
    /\ UNCHANGED launchVars
    /\ UNCHANGED fnVars
    /\ UNCHANGED runVars

\* A second of the sleep of Drain passes.
DrainSecond ==
    /\ drain = "sleeping" /\ drainElapsed < drainSeconds
    /\ drainElapsed' = drainElapsed + 1
    /\ UNCHANGED <<probePc, probeEnabled, probeFile, drainSeconds, ready,
                   server, probeCtx, shutdownPc, drain, markerFile, lastResp>>
    /\ UNCHANGED launchVars
    /\ UNCHANGED fnVars
    /\ UNCHANGED runVars

\* The sleep is over and Drain returns.
DrainReturn ==
    /\ drain = "sleeping" /\ drainElapsed = drainSeconds
    /\ drain' = "done"
    /\ probePc' = "drained"
    /\ UNCHANGED <<probeEnabled, probeFile, drainSeconds, ready, server,
                   probeCtx, shutdownPc, drainElapsed, markerFile, lastResp>>
    /\ UNCHANGED launchVars
    /\ UNCHANGED fnVars
    /\ UNCHANGED runVars

\* A client requests a path of the readiness port.
Request ==
    /\ probePc # "absent"
    /\ \E path \in Paths :
          lastResp' = [path   |-> path,
                       status |-> Answer(path, server, ready).status,
                       body   |-> Answer(path, server, ready).body,
                       at     |-> probePc]
    /\ UNCHANGED <<probePc, probeEnabled, probeFile, drainSeconds, ready,
                   server, probeCtx, shutdownPc, drain, drainElapsed,
                   markerFile>>
    /\ UNCHANGED launchVars
    /\ UNCHANGED fnVars
    /\ UNCHANGED runVars

NextReadiness ==
    \/ ProbeStart
    \/ ListenAndServe
    \/ ProbeCancel
    \/ ShutdownServer
    \/ SetReady
    \/ Drain
    \/ DrainSecond
    \/ DrainReturn
    \/ Request

(***************************************************************************)
(* MemoryLimiter.ComputeLimits called on its own: the arithmetic of        *)
(* part_002:116-132 in bytes.  The code computes in float64 and converts   *)
(* to uint64, which truncates; for the limits and the whole percentages    *)
(* used here every product is below 2^53 and the float64 result truncates  *)
(* to the floor of the exact quotient.                                     *)
(***************************************************************************)
minimumEffectiveLimitBytes == 67108864
MiB32 == 33554432
GiB == 1073741824

\* uint64(float64(x) * p / 100.0) rounded to the nearest integer instead of
\* truncated.
PercentRounded(x, p) ==
    (x \div 100) * p + ((x % 100) * p + 50) \div 100

\* uint64(float64(x) * p / 100.0): the floor of x * p / 100, computed from
\* x = 100 * (x div 100) + (x mod 100) so that no product leaves 32 bits.
Percent(x, p) ==
    (x \div 100) * p + ((x % 100) * p) \div 100

\* The effective limit with the sign of the buffer reversed.
EffectiveAddsBuffer(limit, maxRss, buffer) ==
    LET base == Percent(limit, maxRss)
        effective == Percent(base, 100 + buffer)
    IN  IF effective < minimumEffectiveLimitBytes
            THEN minimumEffectiveLimitBytes ELSE effective

\* The effective limit without the floor.
EffectiveUnclamped(limit, maxRss, buffer) ==
    Percent(Percent(limit, maxRss), 100 - buffer)

\* part_002:119-125: base, then effective (buffer in hundredths), then the
\* floor of minimumEffectiveLimitBytes.
Effective(limit, maxRss, buffer) ==
    LET base == Percent(limit, maxRss)
        effective == Percent(base, 100 - buffer)
    IN  IF effective < minimumEffectiveLimitBytes
            THEN minimumEffectiveLimitBytes ELSE effective

\* A threshold taken as a percentage of the effective limit.
ThresholdOfEffective(limit, effective, percent) == Percent(effective, percent)

\* part_002:129-130: a watchdog threshold is a percentage of the cgroup
\* limit, not of the effective limit.
Threshold(limit, effective, percent) == Percent(limit, percent)

\* ComputeLimits for a configuration c and the limit the cgroup files give
\* (cg; ReadErr when they cannot be read): the error and MemoryLimits.
ComputeLimitBytes(c, cg) ==
    LET failed(e) == [done |-> TRUE, err |-> e, CgroupLimitBytes |-> 0,
                      EffectiveLimitBytes |-> 0, SoftWarnBytes |-> 0,
                      HardKillBytes |-> 0]
        limitsOf(l) ==
            LET e == Effective(l, c.MaxRSSPercent, c.HeapFragmentationBuffer)
            IN  [done |-> TRUE, err |-> "nil", CgroupLimitBytes |-> l,
                 EffectiveLimitBytes |-> e,
                 SoftWarnBytes |-> Threshold(l, e, c.SoftLimitPercent),
                 HardKillBytes |-> Threshold(l, e, c.HardLimitPercent)]
    IN  IF c.Mode = MemoryModeUnmanaged THEN failed("nil")
        ELSE IF c.Mode = MemoryModeFixed
            THEN IF c.FixedLimitBytes = 0 THEN failed("config")
                                          ELSE limitsOf(c.FixedLimitBytes)
        ELSE IF c.Mode = MemoryModeCgroupAware
            THEN IF cg = ReadErr THEN failed("detect") ELSE limitsOf(cg)
        ELSE failed("config")

\* The limits tried: none, the very small ones, and 32 MiB, 64 MiB and 1 GiB.
LimitValues == (0..MaxSmallLimit) \cup {MiB32, minimumEffectiveLimitBytes, GiB}

\* The configurations tried.  Nothing in MergeConfigs or validateStaticConfig
\* constrains the percentages, so soft >= hard and values above 100 are
\* accepted; the defaults are 75, 0.10, 85 and 95.
LimitConfigs ==
    [Mode : {MemoryModeCgroupAware, MemoryModeFixed},
     FixedLimitBytes : LimitValues,
     MaxRSSPercent : {75, 80, 100, 120},
     HeapFragmentationBuffer : {10, 25},
     SoftLimitPercent : {80, 85, 95},
     HardLimitPercent : {85, 95, 120}]

\* The library is used without Launch: nothing runs, no probe is built.
InitIdle ==
    /\ InitCommon
    /\ NoReadinessProbe
    /\ pc = "idle"
    /\ child = "none"
    /\ wdPc = "none"
    /\ readRSS = "proc"
    /\ feed = <<>>
    /\ limits = ZeroLimits
    /\ watchdogOn = FALSE
    /\ isContainer = FALSE
    /\ memMode = MemoryModeUnmanaged
    /\ fixedLimitBytes = 0

InitLimits ==
    /\ InitIdle
    /\ \E c \in LimitConfigs, cg \in LimitValues \cup {ReadErr} :
          /\ (c.Mode = MemoryModeFixed) => cg = 0
          /\ (c.Mode = MemoryModeCgroupAware) => c.FixedLimitBytes = 0
          /\ call = [fn |-> "ComputeLimits", cfg |-> c, cg |-> cg]
    /\ ret = [done |-> FALSE]

\* The call returns.
CallComputeLimits ==
    /\ call.fn = "ComputeLimits" /\ ~ret.done
    /\ ret' = ComputeLimitBytes(call.cfg, call.cg)
    /\ UNCHANGED call
    /\ UNCHANGED runVars
    /\ UNCHANGED launchVars
    /\ UNCHANGED probeVars

\* ComputeLimits applied to each configuration and limit.
LimitsSpec == InitLimits /\ [][CallComputeLimits]_vars

(***************************************************************************)
(* MemoryLimiter.readCgroupMemoryLimit and readSystemMemory called on      *)
(* their own.  A uint64 is kept as two limbs, hi * 2^30 + lo, so that the  *)
(* values around 1 << 60 can be told apart.                                *)
(***************************************************************************)
Limb == 1073741824
U64(hi, lo) == [hi |-> hi, lo |-> lo]
Greater(a, b) == a.hi > b.hi \/ (a.hi = b.hi /\ a.lo > b.lo)

\* 1 << 60.
UnlimitedV1 == U64(Limb, 0)

\* A test that also takes 1 << 60 itself for unlimited.
atLeastUnlimitedV1(limit) == limit = UnlimitedV1 \/ Greater(limit, UnlimitedV1)

\* part_002:230: limit > 1<<60.
overUnlimitedV1(limit) == Greater(limit, UnlimitedV1)

\* kb * 1024 (part_002:254), for kb below 2^40.
KBToBytes(kb) == U64(kb \div 1048576, (kb % 1048576) * 1024)

\* readSystemMemory: proc/meminfo is missing, has no MemTotal line, or gives
\* MemTotal in kB.
readSystemMemory(meminfo) ==
    IF meminfo.k = "kB" THEN [err |-> "nil", limit |-> KBToBytes(meminfo.kb)]
                        ELSE [err |-> "meminfo", limit |-> U64(0, 0)]

\* strings.TrimSpace of the file's content: a file is its text and whether
\* white space surrounds it.
TrimSpace(file) == [k |-> file.k, n |-> file.n]

\* readCgroupMemoryLimit for a cgroup version, the limit file of that version
\* and proc/meminfo.
readCgroupMemoryLimit(cgroupVersion, file, meminfo) ==
    LET failed(e) == [err |-> e, limit |-> U64(0, 0)]
        content == TrimSpace(file)
    IN  IF cgroupVersion \notin {1, 2} THEN failed("version")
        ELSE IF file.k = "missing" THEN failed("read")
        ELSE IF content.k = "max" THEN readSystemMemory(meminfo)
        ELSE IF content.k # "num" THEN failed("parse")
        ELSE IF cgroupVersion = 1 /\ overUnlimitedV1(content.n)
            THEN readSystemMemory(meminfo)
        ELSE [err |-> "nil", limit |-> content.n]

\* The limit files tried: missing, "max", text that is no number, and numbers
\* below, at and above 1 << 60; each with and without a trailing newline.
LimitFiles ==
    {[k |-> "missing", n |-> U64(0, 0), ws |-> FALSE]} \cup
    [k : {"max", "garbage"}, n : {U64(0, 0)}, ws : BOOLEAN] \cup
    [k : {"num"},
     n : {U64(h, l) : h \in {0, 1, Limb - 1, Limb, Limb + 1}, l \in {0, 1, Limb - 1}},
     ws : BOOLEAN]

\* proc/meminfo as in the tests (8192000 kB, 16384000 kB), without a MemTotal
\* line, or missing.
MemInfos ==
    {[k |-> "missing", kb |-> 0], [k |-> "no MemTotal", kb |-> 0],
     [k |-> "kB", kb |-> 8192000], [k |-> "kB", kb |-> 16384000]}

InitReadLimit ==
    /\ InitIdle
    /\ \E v \in 0..2, f \in LimitFiles, m \in MemInfos :
          call = [fn |-> "readCgroupMemoryLimit", cgroupVersion |-> v,
                  file |-> f, meminfo |-> m]
    /\ ret = [done |-> FALSE]

\* The call returns.
CallReadCgroupMemoryLimit ==
    /\ call.fn = "readCgroupMemoryLimit" /\ ~ret.done
    /\ ret' = [done |-> TRUE,
               err |-> readCgroupMemoryLimit(call.cgroupVersion, call.file, call.meminfo).err,
               limit |-> readCgroupMemoryLimit(call.cgroupVersion, call.file, call.meminfo).limit]
    /\ UNCHANGED call
    /\ UNCHANGED runVars
    /\ UNCHANGED launchVars
    /\ UNCHANGED probeVars

\* readCgroupMemoryLimit applied to each version, limit file and meminfo.
ReadLimitSpec == InitReadLimit /\ [][CallReadCgroupMemoryLimit]_vars

(***************************************************************************)
(* DetectCPUCount (cpu.go) called on its own.  A field of a cgroup file is *)
(* a number, "max", or text that strconv.ParseFloat rejects; the numbers   *)
(* tried are whole.                                                        *)
(***************************************************************************)
\* runtime.NumCPU(): one, or more than any quota over a period gives.
NumCPUs == {1, 16}

Field(k, v) == [k |-> k, v |-> v]
QuotaFields == {Field("num", q) : q \in -1..MaxQuota} \cup {Field("garbage", 0)}
PeriodFields == {Field("num", p) : p \in {-2, 0, 2, 3}} \cup {Field("garbage", 0)}

\* cpu.max: missing, not two fields, or a quota (a number or "max") and a
\* period.
V2Files ==
    [k : {"missing", "malformed"}, quota : {Field("num", 0)}, period : {Field("num", 0)}]
    \cup [k : {"fields"}, quota : QuotaFields \cup {Field("max", 0)}, period : PeriodFields]

\* cpu.cfs_quota_us and cpu.cfs_period_us: missing, or one field.
V1Files(fields) == {Field("missing", 0)} \cup fields

\* int(quota / period) without math.Ceil: the quotient rounded towards zero.
TruncDiv(q, p) ==
    LET a == IF q < 0 THEN -q ELSE q
        b == IF p < 0 THEN -p ELSE p
    IN  IF (q < 0) = (p < 0) THEN a \div b ELSE -(a \div b)

\* int(math.Ceil(quota / period)) for a period other than zero.
CeilDiv(q, p) ==
    LET a == IF p < 0 THEN -q ELSE q
        b == IF p < 0 THEN -p ELSE p
    IN  -((-a) \div b)

\* The end of both readers: the count from quota and period, at least 1.
countOf(quota, period) ==
    IF CeilDiv(quota, period) < 1 THEN 1 ELSE CeilDiv(quota, period)

\* readCgroupV2CPU: an error, or a count.
readCgroupV2CPU(file, numCPU) ==
    IF file.k # "fields" THEN [err |-> TRUE, count |-> 0]
    ELSE IF file.quota.k = "max" THEN [err |-> FALSE, count |-> numCPU]
    ELSE IF file.quota.k # "num" \/ file.period.k # "num" THEN [err |-> TRUE, count |-> 0]
    ELSE IF file.period.v = 0 THEN [err |-> FALSE, count |-> numCPU]
    ELSE [err |-> FALSE, count |-> countOf(file.quota.v, file.period.v)]

\* readCgroupV1CPU: an error, or a count.
readCgroupV1CPU(quota, period, numCPU) ==
    IF quota.k # "num" THEN [err |-> TRUE, count |-> 0]
    ELSE IF quota.v < 0 THEN [err |-> FALSE, count |-> numCPU]
    ELSE IF period.k # "num" THEN [err |-> TRUE, count |-> 0]
    ELSE IF period.v = 0 THEN [err |-> FALSE, count |-> numCPU]
    ELSE [err |-> FALSE, count |-> countOf(quota.v, period.v)]

\* DetectCPUCount for a CPUConfig, the three cgroup files and the host.
DetectCPUCount(config, v2, v1quota, v1period, numCPU) ==
    LET c2 == readCgroupV2CPU(v2, numCPU)
        c1 == readCgroupV1CPU(v1quota, v1period, numCPU)
    IN  IF config.Override > 0 THEN config.Override
        ELSE IF ~config.AutoDetect THEN numCPU
        ELSE IF ~c2.err /\ c2.count > 0 THEN c2.count
        ELSE IF ~c1.err /\ c1.count > 0 THEN c1.count
        ELSE numCPU

InitCPU ==
    /\ InitIdle
    /\ \E cfg \in [Override : {-1, 0, 4}, AutoDetect : BOOLEAN],
          v2 \in V2Files, q \in V1Files(QuotaFields), p \in V1Files(PeriodFields),
          n \in NumCPUs :
          call = [fn |-> "DetectCPUCount", config |-> cfg, v2 |-> v2,
                  v1quota |-> q, v1period |-> p, numCPU |-> n]
    /\ ret = [done |-> FALSE]

\* The call returns.
CallDetectCPUCount ==
    /\ call.fn = "DetectCPUCount" /\ ~ret.done
    /\ ret' = [done |-> TRUE,
               count |-> DetectCPUCount(call.config, call.v2, call.v1quota,
                                        call.v1period, call.numCPU)]
    /\ UNCHANGED call
    /\ UNCHANGED runVars
    /\ UNCHANGED launchVars
    /\ UNCHANGED probeVars

\* DetectCPUCount applied to each configuration and set of cgroup files.
CPUSpec == InitCPU /\ [][CallDetectCPUCount]_vars

(***************************************************************************)
(* BuildCommandArgs (process.go) called on its own.  A Go string is a      *)
(* sequence of pieces, so that strings can be joined and a reference to an *)
(* environment variable is a piece of its own; "" is the empty sequence.   *)
(***************************************************************************)
LaunchModePEX == "pex"
LaunchModeModule == "module"
LaunchModeScript == "script"
LaunchModeUvicorn == "uvicorn"
LaunchModeGunicorn == "gunicorn"
LaunchModeCommand == "command"
LaunchModes == {"", LaunchModePEX, LaunchModeModule, LaunchModeScript,
                LaunchModeUvicorn, LaunchModeGunicorn, LaunchModeCommand}

Str(piece) == <<piece>>
PythonVar == "$PYTHON_HOME"

\* os.ExpandEnv: every reference to a variable is replaced by the variable's
\* value, by nothing when the variable is not set.
RECURSIVE ExpandEnv(_, _)
ExpandEnv(path, env) ==
    IF path = <<>> THEN <<>>
    ELSE IF Head(path) = PythonVar THEN env \o ExpandEnv(Tail(path), env)
    ELSE <<Head(path)>> \o ExpandEnv(Tail(path), env)

ResolveEnvVarPath(path, env) == ExpandEnv(path, env)

\* The strings of a list that are not empty, in order.
RECURSIVE NonEmpty(_)
NonEmpty(list) ==
    IF list = <<>> THEN <<>>
    ELSE IF Head(list) = <<>> THEN NonEmpty(Tail(list))
    ELSE <<Head(list)>> \o NonEmpty(Tail(list))

\* buildPythonArgs with every extra argument kept, the empty ones too.
buildPythonArgsKeepEmpty(config, env, extraArgs) ==
    LET pythonPath == IF config.PythonPath = <<>> THEN Str("python3")
                                                  ELSE config.PythonPath
    IN  <<ResolveEnvVarPath(pythonPath, env)>> \o config.PythonOpts
           \o extraArgs \o config.Args

\* buildPythonArgs: [python] [opts...] [extraArgs that are not empty...] [args...].
buildPythonArgs(config, env, extraArgs) ==
    LET pythonPath == IF config.PythonPath = <<>> THEN Str("python3")
                                                  ELSE config.PythonPath
    IN  <<ResolveEnvVarPath(pythonPath, env)>> \o config.PythonOpts
           \o NonEmpty(extraArgs) \o config.Args

\* config.Executable + ":" + config.EntryPoint, or the executable alone.
appSpec(config) ==
    IF config.EntryPoint # <<>>
        THEN config.Executable \o Str(":") \o config.EntryPoint
        ELSE config.Executable

BuildCommandArgs(config, env) ==
    IF config.LaunchMode = LaunchModeCommand
        THEN <<config.Executable>> \o config.Args
    ELSE IF config.LaunchMode = LaunchModeModule
        THEN buildPythonArgs(config, env, <<Str("-m"), config.Executable>>)
    ELSE IF config.LaunchMode = LaunchModeScript
        THEN buildPythonArgs(config, env, <<<<>>, config.Executable>>)
    ELSE IF config.LaunchMode = LaunchModeUvicorn
        THEN buildPythonArgs(config, env, <<Str("-m"), Str("uvicorn"), appSpec(config)>>)
    ELSE IF config.LaunchMode = LaunchModeGunicorn
        THEN buildPythonArgs(config, env, <<Str("-m"), Str("gunicorn"), appSpec(config)>>)
    ELSE IF config.PythonPath # <<>>
        THEN <<ResolveEnvVarPath(config.PythonPath, env)>> \o config.PythonOpts
                \o <<config.Executable>> \o config.Args
    ELSE <<config.Executable>> \o config.Args

\* Lists of at most n strings taken from set.
ListsUpTo(set, n) == UNION {[1..k -> set] : k \in 0..n}

\* The configurations tried: each mode; pythonPath empty, plain, or with a
\* reference to a variable; the executable (empty too, although
\* validateStaticConfig refuses that); with and without an entry point.
CommandConfigs ==
    [LaunchMode : LaunchModes,
     PythonPath : {<<>>, Str("/usr/bin/python3.11"), <<PythonVar, "/bin/python3">>},
     PythonOpts : ListsUpTo({Str("-u"), Str("-O")}, MaxOpts),
     Executable : {<<>>, Str("myapp.main")},
     EntryPoint : {<<>>, Str("app")},
     Args : ListsUpTo({Str("--port")}, MaxArgs)]

InitCommand ==
    /\ InitIdle
    /\ \E c \in CommandConfigs, env \in {<<>>, Str("/opt/python-3.11")} :
          call = [fn |-> "BuildCommandArgs", config |-> c, env |-> env]
    /\ ret = [done |-> FALSE]

\* The call returns.
CallBuildCommandArgs ==
    /\ call.fn = "BuildCommandArgs" /\ ~ret.done
    /\ ret' = [done |-> TRUE, argv |-> BuildCommandArgs(call.config, call.env)]
    /\ UNCHANGED call
    /\ UNCHANGED runVars
    /\ UNCHANGED launchVars
    /\ UNCHANGED probeVars

\* BuildCommandArgs applied to each configuration and environment.
CommandSpec == InitCommand /\ [][CallBuildCommandArgs]_vars

\* A readiness probe with its caller and its clients.
ReadinessSpec == InitReadiness /\ [][NextReadiness]_vars

\* Launch entered with a configuration whose readiness section enables the
\* probe (readiness.enabled: true, with or without a filePath), and which
\* calls for the watchdog.  The configuration structs of config.go have no
\* readiness field and Launch builds no probe (probePc stays "absent").
InitReadyLaunch ==
    /\ InitCommon
    /\ NoCall
    /\ pc = "start"
    /\ child = "none"
    /\ wdPc = "none"
    /\ readRSS = "proc"
    /\ feed = <<>>
    /\ limits = ZeroLimits
    /\ watchdogOn = TRUE
    /\ isContainer = FALSE
    /\ memMode = MemoryModeCgroupAware
    /\ fixedLimitBytes = 0
    /\ probePc = "absent"
    /\ probeEnabled = TRUE
    /\ probeFile \in BOOLEAN
    /\ drainSeconds = 1
    /\ ready = FALSE
    /\ server = "none"
    /\ probeCtx = FALSE
    /\ shutdownPc = "none"
    /\ drain = "none"
    /\ drainElapsed = 0
    /\ markerFile = "absent"
    /\ lastResp = NoResponse

\* A run of Launch under such a configuration.
ReadyLaunchSpec == InitReadyLaunch /\ [][Next]_vars

(***************************************************************************)
(* Properties.                                                             *)
(***************************************************************************)
AllowedEdge(a, b) ==
    \/ a = b
    \/ a = WatchdogStateHealthy /\ b = WatchdogStateSoftWarning
    \/ a \in {WatchdogStateHealthy, WatchdogStateSoftWarning} /\ b = WatchdogStateHardLimit
    \/ a = WatchdogStateHardLimit /\ b = WatchdogStateTerminating
    \/ a = WatchdogStateSoftWarning /\ b = WatchdogStateHealthy

\* C1: for every sequence of readings the watchdog's state moves only along
\* healthy -> soft_warning, {healthy, soft_warning} -> hard_limit ->
\* terminating and soft_warning -> healthy, and once it has reached
\* hard_limit it is never healthy or soft_warning again.
C1_StateEdges ==
    [][/\ AllowedEdge(wdState, wdState')
       /\ wdState >= WatchdogStateHardLimit => wdState' >= WatchdogStateHardLimit]_vars

\* C1 witness: a run that warned, recovered, and then hit the hard limit.
C1_Witness ==
    /\ wdState = WatchdogStateTerminating
    /\ \E i, j \in DOMAIN stateTrace :
          /\ i < j
          /\ stateTrace[i] = WatchdogStateSoftWarning
          /\ stateTrace[j] = WatchdogStateHealthy

C3_KillIffNotExited ==
    (grace = "done" /\ childAtTerm = "running") =>
        /\ childAtGrace = "running" => killSent = 1
        /\ childAtGrace \in {"zombie", "reaped"} => killSent = 0

\* C3 amended: the grace goroutine exists only after a sent SIGTERM and sends
\* at most one SIGKILL, when the grace period elapses: one if the child is
\* still in the process table (running, or exited but not yet reaped by
\* cmd.Wait), none if it has been reaped.
C3_KillIffNotReaped ==
    /\ killSent <= 1
    /\ grace # "none" => termSent = 1
    /\ grace # "done" => killSent = 0
    /\ grace = "done" => (killSent = 1 <=> childAtGrace \in {"running", "zombie"})

\* C3 witness: the child ignored SIGTERM and was killed after the grace period.
C3_Witness ==
    grace = "done" /\ childAtGrace = "running" /\ killSent = 1

\* C4 as stated: if the watchdog sent SIGTERM to the running child, the
\* composed LaunchResult has WatchdogTriggered = true.
C4_TriggeredReported ==
    (result # "none" /\ termSent >= 1 /\ childAtTerm = "running") => result = "true"

\* C5 as stated: after a failed RSS read Run has returned false (so nothing
\* is read or signalled afterwards).
C5_StopsOnReadError ==
    readFailed => (wdPc \in {"report", "done"} /\ wdRet = "false")

C7_GraceIgnoresCancel ==
    /\ (ctxDone /\ grace = "sleeping" /\ supStatus = "alive") => ENABLED GraceExpired
    /\ (grace = "done" /\ ctxAtGrace) => (killSent = 1 <=> isProcessAlive(childAtGrace))

\* C7 witness: the grace goroutine woke up after the cancellation.
C7_Witness ==
    grace = "done" /\ ctxAtGrace

\* C8: in one run the watchdog enters hard_limit at most once and sends
\* SIGTERM at most once.
C8_HardLimitOnce ==
    hardEntries <= 1 /\ termTried <= 1 /\ termSent <= 1

\* C8 witness: the hard limit was hit, SIGTERM was sent, the run was cancelled.
C8_Witness ==
    hardEntries = 1 /\ termSent = 1 /\ ctxDone /\ wdPc = "done"

Scenario == <<SoftWarnBytes - 1, SoftWarnBytes + 1, SoftWarnBytes + 1, HardKillBytes + 1>>

\* C9 as stated: fed [S-1, S+1, S+1, H+1] the states after the four ticks are
\* healthy, soft_warning, soft_warning, hard_limit; one soft warning is
\* logged, one SIGTERM is sent, at tick 4, and one SIGKILL evaluation is
\* scheduled.
C9_ScenarioTrace ==
    (feed = Scenario /\ fedCount = Len(Scenario) /\ wdPc # "terminate") =>
        /\ stateTrace = <<WatchdogStateHealthy, WatchdogStateSoftWarning,
                          WatchdogStateSoftWarning, WatchdogStateHardLimit>>
        /\ softLogs = 1
        /\ termSent = 1
        /\ termTick = Len(Scenario)
        /\ graceScheduled = 1

\* C10 as stated: the pid file is there from its write until the child has
\* exited, never before the spawn, and once written it is gone whenever the
\* supervisor has stopped, however it stopped.
C10_PidFileWhileChildRuns ==
    /\ pidFile = "present" => child # "none"
    /\ (pidWritten /\ supStatus = "alive"
           /\ pc \in {"pidWritten", "watchdogStarted", "forwarding", "waiting"})
          => pidFile = "present"
    /\ (pidWritten /\ supStatus # "alive") => pidFile = "absent"

\* The positions of Launch after the loop that kills and reaps the sidecars.
AfterCleanup == {"result", "deferClose", "deferCancel", "deferRemove", "returned"}

\* C11 as stated: once the primary child has exited, the watchdog is
\* cancelled and the signal forwarder closed before the sidecars are killed
\* and reaped, and all of that before the pid file is removed.
C11_TeardownOrder ==
    /\ pc \in AfterCleanup => (ctxDone /\ fwd = "closed")
    /\ pc = "returned" =>
          (ctxDone /\ fwd = "closed" /\ \A i \in 1..MaxSubs : sub[i] \in {"failed", "reaped"})

\* C18: sidecars never decide the supervisor's lifetime: whatever the
\* sidecars' starts did, the subprocess loop is followed by the wait on the
\* primary; the wait ends only by reaping the exited primary; and when Launch
\* has returned every sidecar that was started has been reaped.
C18_SidecarsDoNotDecide ==
    /\ [][(pc = "forwarding" /\ pc' # pc) => pc' = "waiting"]_vars
    /\ [][(pc = "waiting" /\ pc' # pc) => (child = "zombie" /\ child' = "reaped")]_vars
    /\ [](pc = "returned" => \A i \in 1..MaxSubs : sub[i] \in {"failed", "reaped"})

\* C18 witness: a sidecar has exited on its own and Launch still waits for
\* the running primary.
C18_Witness ==
    /\ pc = "waiting" /\ supStatus = "alive" /\ child = "running"
    /\ \E i \in 1..MaxSubs : sub[i] = "zombie"

C13_DetectionFailure ==
    /\ []((limitsErr = "detect" /\ isContainer) =>
            (pc = "failed" /\ exitCode = 1 /\ launchErr = "error" /\ child = "none"))
    /\ [][(pc = "start" /\ limitsErr' = "detect" /\ ~isContainer) =>
            (pc' = "limits" /\ memMode' = MemoryModeUnmanaged)]_vars
    /\ []((limitsErr = "detect" /\ ~isContainer) =>
            (memMode = MemoryModeUnmanaged /\ memEnv = {} /\ wdPc = "none"))

\* C13 witness: detection failed outside a container, the watchdog is
\* enabled in the configuration, and the child runs unwatched.
C13_Witness ==
    /\ limitsErr = "detect" /\ ~isContainer /\ watchdogOn
    /\ pc = "waiting" /\ child = "running" /\ wdPc = "none"

\* C14 as stated: a configuration error of the memory policy ends Launch
\* with exit code 1 and no child, in a container or not.
C14_ConfigErrorFatal ==
    limitsErr = "config" => (pc = "failed" /\ exitCode = 1 /\ child = "none")

\* C15: in mode unmanaged ComputeLimits returns zero limits and no error,
\* the memory environment is empty, the watchdog goroutine never exists (no
\* RSS read, no signal), and WatchdogTriggered is false.
C15_UnmanagedIsOff ==
    /\ \A f \in {0, MaxRSS}, cg \in CgroupReads :
          ComputeLimits(MemoryModeUnmanaged, f, cg) = [err |-> "nil", limits |-> ZeroLimits]
    /\ BuildMemoryEnv(MemoryModeUnmanaged) = {}
    /\ memMode = MemoryModeUnmanaged =>
          /\ limits = ZeroLimits
          /\ memEnv = {}
          /\ wdPc = "none"
          /\ ~readFailed /\ ~checkedAfterCancel
          /\ hardEntries = 0 /\ termTried = 0 /\ grace = "none" /\ killSent = 0
          /\ result \in {"none", "false"}

\* C15 witness: a run configured unmanaged, with the watchdog enabled, has
\* returned with WatchdogTriggered = false.
C15_Witness ==
    /\ memMode = MemoryModeUnmanaged /\ limitsErr = "nil" /\ watchdogOn
    /\ pc = "returned" /\ result = "false"

\* C16 as stated: every SIGTERM, SIGINT or SIGHUP that reaches the
\* supervisor while the child runs is forwarded to the child: none is lost,
\* whether several arrive in quick succession or one arrives right after
\* the spawn.
C16_EverySignalForwarded ==
    ~lostRunning

\* C17 as stated: no signal is sent to the child's pid once the child has
\* been reaped, and a signal arriving after the forwarder was closed has no
\* side effect: the supervisor does not fail.
C17_SubscriptionEndsWithChild ==
    ~fwdStale /\ supStatus # "panicked"

\* C19: the readiness server is never shut down while a started drain is
\* still sleeping, however the cancellation of the context is ordered against
\* the call of Drain.
C19_NoShutdownBeforeDrainEnds == ~(drain = "sleeping" /\ server = "closed")

C21_MarkerIndependentOfHTTP ==
    probeFile =>
        /\ probePc = "ready" => markerFile \in {"present", "write failed"}
        /\ probePc \in {"draining", "drained"} => markerFile # "present"

\* C22: in a run of Launch with readiness enabled, the service is not marked
\* ready before the primary child is spawned and its pid file written; it has
\* been marked ready by the time Launch waits for the child, and readiness
\* has been drained by the time Launch returns after the child's exit.
C22_ReadyAfterSpawnDrainedAtExit ==
    probeEnabled =>
        /\ (ready \/ markerFile = "present") => (child # "none" /\ pidWritten)
        /\ pc = "waiting" => probePc \in {"ready", "draining", "drained"}
        /\ (pc = "returned" /\ launchErr = "nil") => probePc = "drained"

\* A call of ComputeLimits that returned limits.
LimitsComputed == call.fn = "ComputeLimits" /\ ret.done /\ ret.err = "nil"

\* C23: for every configuration the launcher accepts and every limit, the
\* thresholds satisfy soft_warn_bytes < hard_kill_bytes <= cgroup_limit_bytes
\* whenever both are non-zero.
C23_ThresholdsOrdered ==
    (LimitsComputed /\ ret.SoftWarnBytes # 0 /\ ret.HardKillBytes # 0) =>
        /\ ret.SoftWarnBytes < ret.HardKillBytes
        /\ ret.HardKillBytes <= ret.CgroupLimitBytes

\* C24: in mode cgroup-aware or fixed with a limit above zero, the effective
\* limit is at least 64 MiB; a limit of 32 MiB gives exactly 64 MiB.
C24_EffectiveAtLeastFloor ==
    (LimitsComputed /\ ret.CgroupLimitBytes > 0) =>
        /\ ret.EffectiveLimitBytes >= 64 * 1024 * 1024
        /\ ret.CgroupLimitBytes = 32 * 1024 * 1024
              => ret.EffectiveLimitBytes = 64 * 1024 * 1024

\* C24 witness: ComputeLimits returned for a limit of 32 MiB under the
\* default policy, with the effective limit raised to the floor.
C24_Witness ==
    /\ LimitsComputed
    /\ ret.CgroupLimitBytes = MiB32
    /\ call.cfg.MaxRSSPercent = 75 /\ call.cfg.HeapFragmentationBuffer = 10
    /\ EffectiveUnclamped(MiB32, 75, 10) < minimumEffectiveLimitBytes
    /\ ret.EffectiveLimitBytes = minimumEffectiveLimitBytes

DefaultPolicyCall ==
    /\ LimitsComputed
    /\ ret.CgroupLimitBytes = GiB
    /\ call.cfg.MaxRSSPercent = 75 /\ call.cfg.HeapFragmentationBuffer = 10
    /\ call.cfg.SoftLimitPercent = 85 /\ call.cfg.HardLimitPercent = 95

LimitRead ==
    /\ call.fn = "readCgroupMemoryLimit" /\ ret.done
    /\ call.cgroupVersion \in {1, 2}
    /\ call.file.k \in {"max", "num"}
    /\ call.meminfo.k = "kB"

\* C28 as stated: the read gives MemTotal * 1024 exactly when the file of
\* version 2 holds "max" or the limit of version 1 is at least 2^60, and
\* every other parsed value unchanged.
C28_FallbackWhenUnlimited ==
    LimitRead =>
        LET unlimited ==
                \/ call.cgroupVersion = 2 /\ call.file.k = "max"
                \/ /\ call.cgroupVersion = 1 /\ call.file.k = "num"
                   /\ (call.file.n.hi > Limb \/ call.file.n.hi = Limb)
        IN  /\ ret.err = "nil"
            /\ unlimited => ret.limit = KBToBytes(call.meminfo.kb)
            /\ (~unlimited /\ call.file.k = "num") => ret.limit = call.file.n

\* C28 amended: the read gives MemTotal * 1024 exactly when the file holds
\* "max" (in either version, with or without surrounding white space) or the
\* limit of version 1 is above 2^60; every other parsed value, 2^60 itself
\* included, is returned unchanged.
C28_FallbackWhenOverUnlimited ==
    LimitRead =>
        LET unlimited ==
                \/ call.file.k = "max"
                \/ /\ call.cgroupVersion = 1 /\ call.file.k = "num"
                   /\ \/ call.file.n.hi > Limb
                      \/ (call.file.n.hi = Limb /\ call.file.n.lo > 0)
        IN  /\ ret.err = "nil"
            /\ unlimited => ret.limit = KBToBytes(call.meminfo.kb)
            /\ ~unlimited => ret.limit = call.file.n

\* C28 witness: a version 1 limit of 2^60 + 2^30 was replaced by
\* MemTotal * 1024 = 8388608000.
C28_Witness ==
    /\ LimitRead
    /\ call.cgroupVersion = 1
    /\ call.file.n = U64(Limb + 1, 0)
    /\ call.meminfo.kb = 8192000
    /\ ret.limit = U64(7, 872415232)

\* The least integer n with n >= quota / period, period not zero.
CeilOfQuotient(quota, period) ==
    LET q == IF period < 0 THEN -quota ELSE quota
        p == IF period < 0 THEN -period ELSE period
    IN  CHOOSE n \in -(MaxQuota + 1)..(MaxQuota + 1) : n * p >= q /\ (n - 1) * p < q

\* What a quota and a period stand for: the host count for a zero period,
\* else the ceiling of their quotient, raised to at least 1.
CountFor(quota, period, numCPU) ==
    IF period = 0 THEN numCPU
    ELSE IF CeilOfQuotient(quota, period) < 1 THEN 1
    ELSE CeilOfQuotient(quota, period)

\* C29: DetectCPUCount returns an integer >= 1: the override when it is above
\* zero; else the host count when auto-detect is off; else the value of
\* cpu.max when it can be read and parsed, else that of the v1 quota and
\* period files, else the host count; quota "max", a negative v1 quota and a
\* zero period stand for the host count, any other pair for the ceiling of
\* quota / period, raised to at least 1.
C29_DetectCPUCount ==
    (call.fn = "DetectCPUCount" /\ ret.done) =>
        LET v2ok == /\ call.v2.k = "fields"
                    /\ \/ call.v2.quota.k = "max"
                       \/ call.v2.quota.k = "num" /\ call.v2.period.k = "num"
            v1ok == /\ call.v1quota.k = "num"
                    /\ call.v1quota.v < 0 \/ call.v1period.k = "num"
        IN  /\ ret.count \in Nat /\ ret.count >= 1
            /\ ret.count =
                 IF call.config.Override > 0 THEN call.config.Override
                 ELSE IF ~call.config.AutoDetect THEN call.numCPU
                 ELSE IF v2ok
                     THEN IF call.v2.quota.k = "max" THEN call.numCPU
                          ELSE CountFor(call.v2.quota.v, call.v2.period.v, call.numCPU)
                 ELSE IF v1ok
                     THEN IF call.v1quota.v < 0 THEN call.numCPU
                          ELSE CountFor(call.v1quota.v, call.v1period.v, call.numCPU)
                 ELSE call.numCPU

\* C29 witness: with no override and auto-detect on, cpu.max "3 2" gave 2 on
\* a host of 16 CPUs.
C29_Witness ==
    /\ call.fn = "DetectCPUCount" /\ ret.done
    /\ call.config.Override = 0 /\ call.config.AutoDetect
    /\ call.v2.k = "fields" /\ call.v2.quota = Field("num", 3)
    /\ call.v2.period = Field("num", 2)
    /\ call.numCPU = 16
    /\ ret.count = 2

\* The modes that run the Python interpreter on a target.
PythonModes == {LaunchModeModule, LaunchModeScript, LaunchModeUvicorn, LaunchModeGunicorn}

\* The mode's verb: "-m", nothing, "-m uvicorn" or "-m gunicorn".
ModeVerb(mode) ==
    IF mode = LaunchModeModule THEN <<Str("-m")>>
    ELSE IF mode = LaunchModeUvicorn THEN <<Str("-m"), Str("uvicorn")>>
    ELSE IF mode = LaunchModeGunicorn THEN <<Str("-m"), Str("gunicorn")>>
    ELSE <<>>

\* The target: the executable, or executable:entry_point in the uvicorn and
\* gunicorn modes when the entry point is not empty.
Target(c) ==
    IF c.LaunchMode \in {LaunchModeUvicorn, LaunchModeGunicorn} /\ c.EntryPoint # <<>>
        THEN c.Executable \o <<":">> \o c.EntryPoint
        ELSE c.Executable

\* [interp, opts..., mode-verb?, target, user-args...] for an interpreter and
\* a list holding the target.
ArgvOf(c, interp, target) ==
    IF c.LaunchMode = LaunchModeCommand THEN <<c.Executable>> \o c.Args
    ELSE IF c.LaunchMode \in PythonModes
        THEN <<interp>> \o c.PythonOpts \o ModeVerb(c.LaunchMode) \o target \o c.Args
    ELSE IF c.PythonPath # <<>>
        THEN <<interp>> \o c.PythonOpts \o <<c.Executable>> \o c.Args
    ELSE <<c.Executable>> \o c.Args

MaxCalls == 2

Digit(d) == <<"0", "1", "2", "3", "4", "5", "6", "7", "8", "9">>[d + 1]

\* strconv.Itoa, strconv.FormatUint(n, 10) and strconv.FormatInt(n, 10) of a
\* number that is not negative: its decimal digits.
RECURSIVE Itoa(_)
Itoa(n) == IF n < 10 THEN <<Digit(n)>> ELSE Itoa(n \div 10) \o <<Digit(n % 10)>>

EmptyMap == [k \in {} |-> <<>>]

\* m[k] = v
Put(m, k, v) == [x \in DOMAIN m \cup {k} |-> IF x = k THEN v ELSE m[x]]

\* A mutation of setDefault: the value is set whether the key is there or not.
setAlways(env, key, value) ==
    [x \in DOMAIN env \cup {key} |-> IF x = key THEN value ELSE env[x]]

setDefault(env, key, value) ==
    IF key \in DOMAIN env THEN env ELSE Put(env, key, value)

setDefaultMap(m, key, value) ==
    IF key \in DOMAIN m THEN m ELSE Put(m, key, value)

\* A mutation of Overlay: the keys that env holds already keep their values.
OverlayUnder(env, m) ==
    [x \in DOMAIN env \cup DOMAIN m |-> IF x \in DOMAIN env THEN env[x] ELSE m[x]]

\* for k, v := range m { env[k] = v }
Overlay(env, m) ==
    [x \in DOMAIN env \cup DOMAIN m |-> IF x \in DOMAIN m THEN m[x] ELSE env[x]]

\* strings.SplitN(e, "=", 2): e cut at its first "=", or e alone.
SplitN(e) ==
    IF \E i \in 1..Len(e) : e[i] = "="
    THEN LET i == CHOOSE i \in 1..Len(e) :
                      e[i] = "=" /\ \A j \in 1..(i - 1) : e[j] # "="
         IN  <<SubSeq(e, 1, i - 1), SubSeq(e, i + 1, Len(e))>>
    ELSE <<e>>

\* The first loop of BuildProcessEnv over os.Environ().
RECURSIVE FromEnviron(_)
FromEnviron(environ) ==
    IF environ = <<>> THEN EmptyMap
    ELSE LET n == Len(environ)
             env == FromEnviron(SubSeq(environ, 1, n - 1))
             parts == SplitN(environ[n])
         IN  IF Len(parts) = 2 THEN Put(env, parts[1], parts[2]) ELSE env

ThreadKeys == {Str("OMP_NUM_THREADS"), Str("MKL_NUM_THREADS"),
               Str("OPENBLAS_NUM_THREADS"), Str("NUMEXPR_MAX_THREADS")}

\* BuildMemoryEnv with the values of its entries.
BuildMemoryEnvMap(config, lim, numCPU) ==
    IF config.Memory.Mode = MemoryModeUnmanaged THEN EmptyMap
    ELSE LET e1 == Put(EmptyMap, Str("MEMORY_LIMIT_BYTES"), Itoa(lim.EffectiveLimitBytes))
             e2 == Put(e1, Str("CGROUP_LIMIT_BYTES"), Itoa(lim.CgroupLimitBytes))
             e3 == Put(e2, Str("MEMORY_MODE"), Str(config.Memory.Mode))
             e4 == Put(e3, Str("SLS_MEMORY_LIMIT_BYTES"), Itoa(lim.EffectiveLimitBytes))
             e5 == Put(e4, Str("SLS_CGROUP_LIMIT_BYTES"), Itoa(lim.CgroupLimitBytes))
             e6 == Put(e5, Str("SLS_MEMORY_MODE"), Str(config.Memory.Mode))
             e7 == IF config.Memory.MallocArenaMax > 0
                   THEN Put(e6, Str("MALLOC_ARENA_MAX"), Itoa(config.Memory.MallocArenaMax))
                   ELSE e6
             e8 == IF config.Memory.MallocTrimThreshold >= 0
                   THEN Put(e7, Str("MALLOC_TRIM_THRESHOLD_"),
                            Itoa(config.Memory.MallocTrimThreshold))
                   ELSE e7
             e9 == Put(e8, Str("PYTHONMALLOC"), Str("malloc"))
             t1 == setDefaultMap(e9, Str("OMP_NUM_THREADS"), Itoa(numCPU))
             t2 == setDefaultMap(t1, Str("MKL_NUM_THREADS"), Itoa(numCPU))
             t3 == setDefaultMap(t2, Str("OPENBLAS_NUM_THREADS"), Itoa(numCPU))
         IN  setDefaultMap(t3, Str("NUMEXPR_MAX_THREADS"), Itoa(numCPU))

\* The map BuildProcessEnv has built when it starts to convert it.
BuildProcessEnv(config, lim, serviceName, serviceVersion, environ, numCPU) ==
    LET inherited == FromEnviron(environ)
        withMem == Overlay(inherited, BuildMemoryEnvMap(config, lim, numCPU))
        withCfg == Overlay(withMem, config.Env)
        m1 == Put(withCfg, Str("SERVICE_NAME"), serviceName)
        m2 == Put(m1, Str("SERVICE_VERSION"), serviceVersion)
        m3 == Put(m2, Str("SLS_SERVICE_NAME"), serviceName)
        m4 == Put(m3, Str("SLS_SERVICE_VERSION"), serviceVersion)
        d1 == setDefault(m4, Str("PYTHONDONTWRITEBYTECODE"), Str("1"))
        d2 == setDefault(d1, Str("PYTHONUNBUFFERED"), Str("1"))
    IN  setDefault(d2, Str("TMPDIR"), Str("var/data/tmp"))

\* The keys in the order the map's table holds them.
Table ==
    <<Str("OPTS"), Str("PYTHONMALLOC"), Str("OMP_NUM_THREADS"), Str("TMPDIR"),
      Str("SERVICE_NAME"), Str("MEMORY_LIMIT_BYTES"), Str("CGROUP_LIMIT_BYTES"),
      Str("MEMORY_MODE"), Str("SLS_MEMORY_LIMIT_BYTES"),
      Str("SLS_CGROUP_LIMIT_BYTES"), Str("SLS_MEMORY_MODE"),
      Str("MALLOC_ARENA_MAX"), Str("MALLOC_TRIM_THRESHOLD_"),
      Str("MKL_NUM_THREADS"), Str("OPENBLAS_NUM_THREADS"),
      Str("NUMEXPR_MAX_THREADS"), Str("SERVICE_VERSION"), Str("SLS_SERVICE_NAME"),
      Str("SLS_SERVICE_VERSION"), Str("PYTHONDONTWRITEBYTECODE"),
      Str("PYTHONUNBUFFERED")>>

RECURSIVE KeysOf(_, _)
KeysOf(env, table) ==
    IF table = <<>> THEN <<>>
    ELSE IF Head(table) \in DOMAIN env THEN <<Head(table)>> \o KeysOf(env, Tail(table))
    ELSE KeysOf(env, Tail(table))

\* for k, v := range env { result = append(result, k+"="+v) }: Go starts the
\* range over a map at a place it picks at random and goes round the table.
RangeFrom(env, start) ==
    LET keys == KeysOf(env, Table)
        n == Len(keys)
    IN  [i \in 1..n |-> LET k == keys[((start + i - 2) % n) + 1]
                        IN  k \o <<"=">> \o env[k]]

\* os.Environ() of a launcher whose environment is the map inherited, with
\* one string in it that has no "=".
RECURSIVE EnvironOf(_, _)
EnvironOf(inherited, table) ==
    IF table = <<>> THEN <<Str("NOVALUE")>>
    ELSE IF Head(table) \in DOMAIN inherited
         THEN <<Head(table) \o <<"=">> \o inherited[Head(table)]>>
              \o EnvironOf(inherited, Tail(table))
    ELSE EnvironOf(inherited, Tail(table))

\* A map that holds each of the keys of choice with its value, or not.
Choice(k, values) == {EmptyMap} \cup {Put(EmptyMap, Str(k), v) : v \in values}

\* The launcher's own environment: PYTHONMALLOC, OMP_NUM_THREADS and TMPDIR
\* each set or not, and OPTS whose value holds an "=".
InheritedEnvs ==
    {Put(Overlay(Overlay(a, b), c), Str("OPTS"), <<"a", "=", "b">>) :
        a \in Choice("PYTHONMALLOC", {Str("malloc"), Str("pymalloc")}),
        b \in Choice("OMP_NUM_THREADS", {Itoa(2)}),
        c \in Choice("TMPDIR", {Str("/tmp")})}

\* The env section of the merged configuration.
ConfigEnvs ==
    {Overlay(Overlay(a, b), Overlay(c, d)) :
        a \in Choice("PYTHONMALLOC", {Str("malloc"), Str("pymalloc")}),
        b \in Choice("OMP_NUM_THREADS", {Itoa(4)}),
        c \in Choice("TMPDIR", {Str("/scratch")}),
        d \in Choice("SERVICE_NAME", {Str("configured")})}

\* The memory section is the default one or one that turns the two malloc
\* settings off.
EnvConfigs ==
    {[Memory |-> [Mode |-> m, MallocArenaMax |-> a.arena, MallocTrimThreshold |-> a.trim],
      Env |-> e] :
        m \in {MemoryModeCgroupAware, MemoryModeFixed, MemoryModeUnmanaged},
        a \in {[arena |-> 2, trim |-> 131072], [arena |-> 0, trim |-> -1]},
        e \in ConfigEnvs}

EnvLimits == [EffectiveLimitBytes |-> 724775731, CgroupLimitBytes |-> GiB]

EnvCall(c, inherited, n, calls) ==
    [fn |-> "BuildProcessEnv", config |-> c, limits |-> EnvLimits,
     serviceName |-> Str("svc"), serviceVersion |-> Str("1.0"),
     inherited |-> inherited, environ |-> EnvironOf(inherited, Table),
     numCPU |-> n, calls |-> calls]

InitEnv ==
    /\ InitIdle
    /\ \E c \in EnvConfigs, inherited \in InheritedEnvs :
          call = EnvCall(c, inherited, 16, 1)
    /\ ret = [done |-> FALSE]

\* A caller that builds the environment of one configuration MaxCalls times.
InitEnvRepeat ==
    /\ InitIdle
    /\ \E c \in EnvConfigs, inherited \in InheritedEnvs :
          /\ c.Memory.MallocArenaMax = 2
          /\ c.Env = EmptyMap
          /\ DOMAIN inherited = {Str("OPTS")}
          /\ call = EnvCall(c, inherited, 16, MaxCalls)
    /\ ret = [done |-> FALSE]

\* One call returns: the map it built and the strings in the order of its
\* range over the map.
CallBuildProcessEnv ==
    /\ call.fn = "BuildProcessEnv"
    /\ ret.done => Len(ret.results) < call.calls
    /\ LET env == BuildProcessEnv(call.config, call.limits, call.serviceName,
                                  call.serviceVersion, call.environ, call.numCPU)
       IN  \E start \in 1..Cardinality(DOMAIN env) :
              ret' = [done |-> TRUE, env |-> env,
                      results |-> (IF ret.done THEN ret.results ELSE <<>>)
                                  \o <<RangeFrom(env, start)>>]
    /\ UNCHANGED call
    /\ UNCHANGED runVars
    /\ UNCHANGED launchVars
    /\ UNCHANGED probeVars

\* BuildProcessEnv applied to each configuration and inherited environment.
EnvSpec == InitEnv /\ [][CallBuildProcessEnv]_vars

\* BuildProcessEnv applied several times to the same inputs.
EnvRepeatSpec == InitEnvRepeat /\ [][CallBuildProcessEnv]_vars

EnvBuilt == call.fn = "BuildProcessEnv" /\ ret.done

\* The layers of the environment as the caller gave them.
MemoryLayer == BuildMemoryEnvMap(call.config, call.limits, call.numCPU)
MetadataLayer ==
    [k \in {Str("SERVICE_NAME"), Str("SERVICE_VERSION"),
            Str("SLS_SERVICE_NAME"), Str("SLS_SERVICE_VERSION")} |->
        IF k \in {Str("SERVICE_NAME"), Str("SLS_SERVICE_NAME")}
        THEN call.serviceName ELSE call.serviceVersion]
DefaultLayer ==
    [k \in {Str("PYTHONDONTWRITEBYTECODE"), Str("PYTHONUNBUFFERED"), Str("TMPDIR")} |->
        IF k = Str("TMPDIR") THEN Str("var/data/tmp") ELSE Str("1")]

\* The value of key k in the highest layer that defines it.
Highest(k) ==
    IF k \in DOMAIN MetadataLayer THEN MetadataLayer[k]
    ELSE IF k \in DOMAIN call.config.Env THEN call.config.Env[k]
    ELSE IF k \in DOMAIN MemoryLayer THEN MemoryLayer[k]
    ELSE IF k \in DOMAIN call.inherited THEN call.inherited[k]
    ELSE DefaultLayer[k]

IsMalloc(env) ==
    Str("PYTHONMALLOC") \in DOMAIN env /\ env[Str("PYTHONMALLOC")] = Str("malloc")

\* C32 as stated: PYTHONMALLOC is "malloc" exactly when the memory mode is
\* not unmanaged and the config env does not define the key.
C32_MallocIffManaged ==
    EnvBuilt =>
        (IsMalloc(ret.env) <=>
            (call.config.Memory.Mode # MemoryModeUnmanaged
             /\ Str("PYTHONMALLOC") \notin DOMAIN call.config.Env))

\* C32: PYTHONMALLOC is "malloc" exactly when the config env sets it to
\* "malloc" or, the config env not defining it, the memory mode is not
\* unmanaged or the inherited environment holds "malloc".
C32_MallocIffManagedOrGiven ==
    EnvBuilt =>
        (IsMalloc(ret.env) <=>
            IF Str("PYTHONMALLOC") \in DOMAIN call.config.Env
            THEN IsMalloc(call.config.Env)
            ELSE \/ call.config.Memory.Mode # MemoryModeUnmanaged
                 \/ IsMalloc(call.inherited))

\* A managed mode replaces an inherited "pymalloc".
C32_Witness ==
    /\ EnvBuilt
    /\ call.config.Memory.Mode = MemoryModeFixed
    /\ Str("PYTHONMALLOC") \notin DOMAIN call.config.Env
    /\ Str("PYTHONMALLOC") \in DOMAIN call.inherited
    /\ call.inherited[Str("PYTHONMALLOC")] = Str("pymalloc")
    /\ IsMalloc(ret.env)

\* C33 as stated: a thread-count key (or SERVICE_CPU_COUNT) that the
\* inherited environment or the config env holds keeps that value in the
\* child's environment.
C33_ThreadKeysKept ==
    EnvBuilt =>
        \A k \in ThreadKeys \cup {Str("SERVICE_CPU_COUNT")} :
            /\ (k \in DOMAIN call.config.Env => ret.env[k] = call.config.Env[k])
            /\ (k \in DOMAIN call.inherited \ DOMAIN call.config.Env
                    => ret.env[k] = call.inherited[k])

\* C34 as stated: the calls of one caller with the same inputs return the
\* same strings in the same order.
C34_SameOrderEveryCall ==
    EnvBuilt =>
        \A i, j \in 1..Len(ret.results) : ret.results[i] = ret.results[j]

(***************************************************************************)
(* SetResourceLimits (process.go) and step 4 of Launch, which calls it.    *)
(* The limits of the process are the record rlimit; fail is the set of     *)
(* resources for which the kernel refuses setrlimit.                       *)
(***************************************************************************)
\* Stands for RLIM_INFINITY, the limit of a process whose core dumps are not
\* limited.
RlimInfinity == -1

ResourceConfigs ==
    [MaxOpenFiles : {0, 65536}, MaxProcesses : {0, 4096}, CoreDumpEnabled : BOOLEAN]

StartRlimits == {[nofile |-> 1024, nproc |-> 1024, core |-> c] : c \in {0, RlimInfinity}}

\* syscall.Setrlimit with Cur = Max = value.
setRlimit(rlimit, fail, resource, value) ==
    IF resource \in fail THEN [ok |-> FALSE, rlimit |-> rlimit]
    ELSE [ok |-> TRUE, rlimit |-> [rlimit EXCEPT ![resource] = value]]

\* The error returned ("none" for nil) and the limits the process is left with.
SetResourceLimits(config, rlimit, fail) ==
    LET r1 == IF config.MaxOpenFiles > 0
              THEN setRlimit(rlimit, fail, "nofile", config.MaxOpenFiles)
              ELSE [ok |-> TRUE, rlimit |-> rlimit]
        r2 == IF config.MaxProcesses > 0
              THEN setRlimit(r1.rlimit, fail, "nproc", config.MaxProcesses)
              ELSE [ok |-> TRUE, rlimit |-> r1.rlimit]
        r3 == IF ~config.CoreDumpEnabled
              THEN setRlimit(r2.rlimit, fail, "core", 0)
              ELSE [ok |-> TRUE, rlimit |-> r2.rlimit]
    IN  IF ~r1.ok THEN [err |-> "failed to set RLIMIT_NOFILE", rlimit |-> r1.rlimit]
        ELSE IF ~r2.ok THEN [err |-> "failed to set RLIMIT_NPROC", rlimit |-> r2.rlimit]
        ELSE IF ~r3.ok THEN [err |-> "failed to disable core dumps", rlimit |-> r3.rlimit]
        ELSE [err |-> "none", rlimit |-> r3.rlimit]

InitResourceLimits ==
    /\ InitIdle
    /\ \E c \in ResourceConfigs, r \in StartRlimits,
          f \in SUBSET {"nofile", "nproc", "core"} :
          call = [fn |-> "SetResourceLimits", config |-> c, rlimit |-> r, fail |-> f]
    /\ ret = [done |-> FALSE]

\* Step 4 of Launch calls SetResourceLimits.
CallSetResourceLimits ==
    /\ call.fn = "SetResourceLimits" /\ ~ret.done
    /\ LET r == SetResourceLimits(call.config, call.rlimit, call.fail)
       IN  ret' = [done |-> TRUE, err |-> r.err, rlimit |-> r.rlimit,
                   warned |-> FALSE, step |-> 4]
    /\ UNCHANGED call
    /\ UNCHANGED runVars
    /\ UNCHANGED launchVars
    /\ UNCHANGED probeVars

\* Launch logs a warning if the call failed and goes on to step 5.
LaunchAfterResourceLimits ==
    /\ call.fn = "SetResourceLimits" /\ ret.done /\ ret.step = 4
    /\ ret' = [ret EXCEPT !.warned = (ret.err # "none"), !.step = 5]
    /\ UNCHANGED call
    /\ UNCHANGED runVars
    /\ UNCHANGED launchVars
    /\ UNCHANGED probeVars

NextResourceLimits == CallSetResourceLimits \/ LaunchAfterResourceLimits

\* Launch from the call of SetResourceLimits to step 5.
ResourceLimitsSpec == InitResourceLimits /\ [][NextResourceLimits]_vars

\* C35 as stated: with core dumps disabled, and the kernel accepting the core
\* limit, the core limit is 0 after every call of SetResourceLimits, whether
\* or not the open-files or the process limit could be set.
C35_CoreLimitForcedToZero ==
    (call.fn = "SetResourceLimits" /\ ret.done) =>
        ((~call.config.CoreDumpEnabled /\ "core" \notin call.fail)
            => ret.rlimit.core = 0)

(***************************************************************************)
(* MergeConfigs (config.go).  Slices and maps are references: arrays maps  *)
(* the name of each backing array to its elements (its length is the       *)
(* capacity), maps the name of each Go map to its entries; a slice is an   *)
(* array and a length.  A float that is a fraction (0.10) is in            *)
(* hundredths.                                                             *)
(***************************************************************************)
Slice(arr, len) == [arr |-> arr, len |-> len]

\* The elements of slice s.
Elems(arrays, s) == SubSeq(arrays[s.arr], 1, s.len)

\* append(s, xs...): in place when the capacity allows, else into a new
\* array named fresh.
append(arrays, s, xs, fresh) ==
    IF s.len + Len(xs) <= Len(arrays[s.arr])
    THEN [arrays |-> [arrays EXCEPT ![s.arr] =
                        SubSeq(@, 1, s.len) \o xs
                        \o SubSeq(@, s.len + Len(xs) + 1, Len(@))],
          slice |-> Slice(s.arr, s.len + Len(xs))]
    ELSE [arrays |-> Put(arrays, fresh, Elems(arrays, s) \o xs),
          slice |-> Slice(fresh, s.len + Len(xs))]

\* A mutation of Concat: append(a, b...) on the first slice itself.
ConcatInPlace(arrays, a, b, fresh, grown) ==
    append(arrays, a, Elems(arrays, b), fresh)

\* append(append([]string{}, a...), b...); fresh and grown name the arrays
\* that the two calls of append allocate when they have to.
Concat(arrays, a, b, fresh, grown) ==
    LET withEmpty == Put(arrays, "[]string{}", <<>>)
        first == append(withEmpty, Slice("[]string{}", 0), Elems(arrays, a), fresh)
    IN  append(first.arrays, first.slice, Elems(first.arrays, b), grown)

DefaultMemoryConfig ==
    [Mode |-> MemoryModeCgroupAware, MaxRSSPercent |-> 75, FixedLimitBytes |-> 0,
     HeapFragmentationBuffer |-> 10, MallocTrimThreshold |-> 131072,
     MallocArenaMax |-> 2]

DefaultWatchdogConfig ==
    [Enabled |-> "true", PollIntervalSeconds |-> 5, SoftLimitPercent |-> 85,
     HardLimitPercent |-> 95, GracePeriodSeconds |-> 30]

applyMemoryDefaults(config) ==
    [Mode |-> IF config.Mode = "" THEN DefaultMemoryConfig.Mode ELSE config.Mode,
     MaxRSSPercent |-> IF config.MaxRSSPercent = 0
                       THEN DefaultMemoryConfig.MaxRSSPercent ELSE config.MaxRSSPercent,
     FixedLimitBytes |-> config.FixedLimitBytes,
     HeapFragmentationBuffer |-> IF config.HeapFragmentationBuffer = 0
                                 THEN DefaultMemoryConfig.HeapFragmentationBuffer
                                 ELSE config.HeapFragmentationBuffer,
     MallocTrimThreshold |-> IF config.MallocTrimThreshold = 0
                             THEN DefaultMemoryConfig.MallocTrimThreshold
                             ELSE config.MallocTrimThreshold,
     MallocArenaMax |-> IF config.MallocArenaMax = 0
                        THEN DefaultMemoryConfig.MallocArenaMax
                        ELSE config.MallocArenaMax]

\* custom is the struct custom.Memory points to, or [isNil |-> TRUE].
mergeMemoryConfig(static, custom) ==
    IF custom.isNil THEN applyMemoryDefaults(static)
    ELSE applyMemoryDefaults(
           [Mode |-> IF custom.Mode # "" THEN custom.Mode ELSE static.Mode,
            MaxRSSPercent |-> IF custom.MaxRSSPercent > 0
                              THEN custom.MaxRSSPercent ELSE static.MaxRSSPercent,
            FixedLimitBytes |-> IF custom.FixedLimitBytes > 0
                                THEN custom.FixedLimitBytes ELSE static.FixedLimitBytes,
            HeapFragmentationBuffer |-> IF custom.HeapFragmentationBuffer > 0
                                        THEN custom.HeapFragmentationBuffer
                                        ELSE static.HeapFragmentationBuffer,
            MallocTrimThreshold |-> IF custom.MallocTrimThreshold # 0
                                    THEN custom.MallocTrimThreshold
                                    ELSE static.MallocTrimThreshold,
            MallocArenaMax |-> IF custom.MallocArenaMax # 0
                               THEN custom.MallocArenaMax ELSE static.MallocArenaMax])

\* Enabled is "nil", or the boolean it points to as "true" or "false".
applyWatchdogDefaults(config) ==
    [Enabled |-> IF config.Enabled = "nil"
                 THEN DefaultWatchdogConfig.Enabled ELSE config.Enabled,
     PollIntervalSeconds |-> IF config.PollIntervalSeconds = 0
                             THEN DefaultWatchdogConfig.PollIntervalSeconds
                             ELSE config.PollIntervalSeconds,
     SoftLimitPercent |-> IF config.SoftLimitPercent = 0
                          THEN DefaultWatchdogConfig.SoftLimitPercent
                          ELSE config.SoftLimitPercent,
     HardLimitPercent |-> IF config.HardLimitPercent = 0
                          THEN DefaultWatchdogConfig.HardLimitPercent
                          ELSE config.HardLimitPercent,
     GracePeriodSeconds |-> IF config.GracePeriodSeconds = 0
                            THEN DefaultWatchdogConfig.GracePeriodSeconds
                            ELSE config.GracePeriodSeconds]

mergeWatchdogConfig(static, custom) ==
    IF custom.isNil THEN applyWatchdogDefaults(static)
    ELSE applyWatchdogDefaults(
           [Enabled |-> IF custom.Enabled # "nil" THEN custom.Enabled ELSE static.Enabled,
            PollIntervalSeconds |-> IF custom.PollIntervalSeconds > 0
                                    THEN custom.PollIntervalSeconds
                                    ELSE static.PollIntervalSeconds,
            SoftLimitPercent |-> IF custom.SoftLimitPercent > 0
                                 THEN custom.SoftLimitPercent
                                 ELSE static.SoftLimitPercent,
            HardLimitPercent |-> IF custom.HardLimitPercent > 0
                                 THEN custom.HardLimitPercent
                                 ELSE static.HardLimitPercent,
            GracePeriodSeconds |-> IF custom.GracePeriodSeconds > 0
                                   THEN custom.GracePeriodSeconds
                                   ELSE static.GracePeriodSeconds])

\* The merged configuration, and the arrays and maps as the call leaves them.
\* containerSet: the launcher's environment has the variable CONTAINER.
MergeConfigs(static, custom, arrays, maps, containerSet) ==
    LET args == Concat(arrays, static.Args, custom.Args, "merged.Args", "merged.Args grown")
        opts == Concat(args.arrays, static.PythonOpts, custom.PythonOpts,
                       "merged.PythonOpts", "merged.PythonOpts grown")
        made == Put(maps, "merged.Env", EmptyMap)
        withStatic == [made EXCEPT !["merged.Env"] = Overlay(@, made[static.Env])]
        withCustom == [withStatic EXCEPT !["merged.Env"] =
                          Overlay(@, withStatic[custom.Env])]
    IN  [merged |->
           [Executable |-> static.Executable,
            PythonPath |-> static.PythonPath,
            EntryPoint |-> static.EntryPoint,
            Args |-> args.slice,
            PythonOpts |-> opts.slice,
            Memory |-> mergeMemoryConfig(static.Memory, custom.Memory),
            Watchdog |-> mergeWatchdogConfig(static.Watchdog, custom.Watchdog),
            Resources |-> static.Resources,
            Env |-> "merged.Env",
            IsContainer |-> containerSet /\ ~custom.DangerousDisableContainerSupport],
         arrays |-> opts.arrays,
         maps |-> withCustom]

\* The memory sections tried: nothing set, everything set, and some fields
\* set; in the custom file also no section at all and one that sets
\* mallocArenaMax to -1.
StaticMemories ==
    {[Mode |-> "", MaxRSSPercent |-> 0, FixedLimitBytes |-> 0,
      HeapFragmentationBuffer |-> 0, MallocTrimThreshold |-> 0, MallocArenaMax |-> 0],
     [Mode |-> MemoryModeFixed, MaxRSSPercent |-> 50, FixedLimitBytes |-> GiB,
      HeapFragmentationBuffer |-> 20, MallocTrimThreshold |-> -1, MallocArenaMax |-> 4],
     [Mode |-> "", MaxRSSPercent |-> 60, FixedLimitBytes |-> 0,
      HeapFragmentationBuffer |-> 0, MallocTrimThreshold |-> 0, MallocArenaMax |-> 0]}

CustomMemories ==
    {[isNil |-> TRUE],
     [isNil |-> FALSE, Mode |-> "", MaxRSSPercent |-> 0, FixedLimitBytes |-> 0,
      HeapFragmentationBuffer |-> 0, MallocTrimThreshold |-> 0, MallocArenaMax |-> 0],
     [isNil |-> FALSE, Mode |-> MemoryModeCgroupAware, MaxRSSPercent |-> 80,
      FixedLimitBytes |-> 0, HeapFragmentationBuffer |-> 5,
      MallocTrimThreshold |-> 65536, MallocArenaMax |-> 8],
     [isNil |-> FALSE, Mode |-> "", MaxRSSPercent |-> 0, FixedLimitBytes |-> 0,
      HeapFragmentationBuffer |-> 0, MallocTrimThreshold |-> 0, MallocArenaMax |-> -1]}

StaticWatchdogs ==
    {[Enabled |-> "nil", PollIntervalSeconds |-> 0, SoftLimitPercent |-> 0,
      HardLimitPercent |-> 0, GracePeriodSeconds |-> 0],
     [Enabled |-> "false", PollIntervalSeconds |-> 10, SoftLimitPercent |-> 70,
      HardLimitPercent |-> 0, GracePeriodSeconds |-> 60]}

CustomWatchdogs ==
    {[isNil |-> TRUE],
     [isNil |-> FALSE, Enabled |-> "nil", PollIntervalSeconds |-> 0,
      SoftLimitPercent |-> 0, HardLimitPercent |-> 0, GracePeriodSeconds |-> 0],
     [isNil |-> FALSE, Enabled |-> "true", PollIntervalSeconds |-> 1,
      SoftLimitPercent |-> 0, HardLimitPercent |-> 99, GracePeriodSeconds |-> 0]}

\* The arrays of the two files' args and pythonOpts (static.Args also with
\* room for one more element) and the maps of their env sections.
MergeArrays ==
    {[n \in {"static.Args", "custom.Args", "static.PythonOpts", "custom.PythonOpts"} |->
        CASE n = "static.Args" -> sa
          [] n = "custom.Args" -> ca
          [] n = "static.PythonOpts" -> so
          [] OTHER -> <<"-u">>] :
        sa \in {<<>>, <<"server">>, <<"server", "">>},
        ca \in {<<>>, <<"--debug">>},
        so \in {<<>>, <<"-O">>}}

MergeMaps ==
    {[n \in {"static.Env", "custom.Env"} |-> IF n = "static.Env" THEN se ELSE ce] :
        se \in {EmptyMap,
                 Put(Put(EmptyMap, Str("BASE_VAR"), Str("from_static")),
                     Str("SHARED"), Str("static_value"))},
        ce \in {EmptyMap,
                 Put(Put(EmptyMap, Str("CUSTOM_VAR"), Str("from_custom")),
                     Str("SHARED"), Str("custom_value"))}}

\* The static and the custom configuration over the arrays given.
StaticOver(arrays, memory, watchdog) ==
    [Executable |-> "service/bin/app.pex", PythonPath |-> "", EntryPoint |-> "",
     Args |-> Slice("static.Args", IF arrays["static.Args"] = <<>> THEN 0 ELSE 1),
     PythonOpts |-> Slice("static.PythonOpts", Len(arrays["static.PythonOpts"])),
     Env |-> "static.Env", Memory |-> memory, Watchdog |-> watchdog,
     Resources |-> [MaxOpenFiles |-> 65536, MaxProcesses |-> 4096,
                    CoreDumpEnabled |-> FALSE]]

CustomOver(arrays, memory, watchdog, disable) ==
    [Args |-> Slice("custom.Args", Len(arrays["custom.Args"])),
     PythonOpts |-> Slice("custom.PythonOpts", Len(arrays["custom.PythonOpts"])),
     Env |-> "custom.Env", Memory |-> memory, Watchdog |-> watchdog,
     DangerousDisableContainerSupport |-> disable]

InitMerge ==
    /\ InitIdle
    /\ \E arrays \in MergeArrays, maps \in MergeMaps,
          sm \in StaticMemories, cm \in CustomMemories,
          sw \in StaticWatchdogs, cw \in CustomWatchdogs,
          container \in BOOLEAN, disable \in BOOLEAN :
          /\ disable => container
          /\ call = [fn |-> "MergeConfigs",
                     static |-> StaticOver(arrays, sm, sw),
                     custom |-> CustomOver(arrays, cm, cw, disable),
                     arrays |-> arrays, maps |-> maps, containerSet |-> container]
    /\ ret = [done |-> FALSE]

\* Step 1 of Launch: MergeConfigs returns.
CallMergeConfigs ==
    /\ call.fn = "MergeConfigs" /\ ~ret.done
    /\ LET r == MergeConfigs(call.static, call.custom, call.arrays, call.maps,
                             call.containerSet)
       IN  ret' = [done |-> TRUE, merged |-> r.merged, arrays |-> r.arrays,
                   maps |-> r.maps, step |-> 1, memEnv |-> EmptyMap]
    /\ UNCHANGED call
    /\ UNCHANGED runVars
    /\ UNCHANGED launchVars
    /\ UNCHANGED probeVars

\* Steps 2 to 5 of Launch as far as the memory block goes: the limits are
\* computed or not; without them Launch fails in a container and goes on in
\* unmanaged mode elsewhere; BuildProcessEnv then calls BuildMemoryEnv.
LaunchBuildMemoryEnv ==
    /\ call.fn = "MergeConfigs" /\ ret.done /\ ret.step = 1
    /\ \E limitsOk \in BOOLEAN :
          IF ~limitsOk /\ ret.merged.IsContainer
          THEN ret' = [ret EXCEPT !.step = 2]
          ELSE LET mode == IF limitsOk THEN ret.merged.Memory.Mode
                           ELSE MemoryModeUnmanaged
                   merged == [ret.merged EXCEPT !.Memory.Mode = mode]
               IN  ret' = [ret EXCEPT !.step = 5, !.merged = merged,
                                      !.memEnv = BuildMemoryEnvMap(merged, EnvLimits, 16)]
    /\ UNCHANGED call
    /\ UNCHANGED runVars
    /\ UNCHANGED launchVars
    /\ UNCHANGED probeVars

NextMerge == CallMergeConfigs \/ LaunchBuildMemoryEnv

\* Launch from MergeConfigs to the memory block of the child's environment.
MergeSpec == InitMerge /\ [][NextMerge]_vars

Merged == call.fn = "MergeConfigs" /\ ret.done /\ ret.step = 1

\* A field is unset in both files.
UnsetInBoth(field, unset) ==
    /\ call.static.Memory[field] = unset
    /\ call.custom.Memory.isNil \/ call.custom.Memory[field] = unset

UnsetInBothWatchdogs(field, unset) ==
    /\ call.static.Watchdog[field] = unset
    /\ call.custom.Watchdog.isNil \/ call.custom.Watchdog[field] = unset

C40_ZeroArenaMaxNotInjected ==
    (call.fn = "MergeConfigs" /\ ret.done /\ ret.step = 5) =>
        /\ UnsetInBoth("MallocArenaMax", 0)
              => Str("MALLOC_ARENA_MAX") \notin DOMAIN ret.memEnv
        /\ Str("MALLOC_ARENA_MAX") \in DOMAIN ret.memEnv
              => \/ call.static.Memory.MallocArenaMax > 0
                 \/ ~call.custom.Memory.isNil /\ call.custom.Memory.MallocArenaMax > 0

\* C37 as stated: Run returns true, and LaunchResult.WatchdogTriggered is
\* true, only if a Kill(pid, SIGTERM) of the watchdog returned nil.
C37_TriggeredOnlyIfTermSent ==
    /\ (wdRet = "true" /\ wdPc \in {"report", "done"}) => termSent >= 1
    /\ result = "true" => termSent >= 1

(***************************************************************************)
(* Steps 5 and 6 of Launch: the command line is built, its first element   *)
(* is resolved against the distribution root, and the child is started.    *)
(***************************************************************************)
\* The pieces of the model's paths that begin with a "/".
Rooted == {"/usr/bin/python3.11", "/opt/python-3.11", "/bin/python3", "/srv/dist", "/"}

\* filepath.IsAbs
IsAbs(path) == path # <<>> /\ Head(path) \in Rooted

\* The path has a separator in it.
HasSeparator(path) == \E i \in 1..Len(path) : path[i] \in Rooted

\* filepath.Join(root, path): the elements that are not empty, joined by "/"
\* and cleaned (a leading "./" goes away).
Join(root, path) ==
    IF path = <<>> THEN root
    ELSE IF root \in {<<>>, Str(".")} THEN path
    ELSE root \o Str("/") \o path

\* Launcher.resolvePath
resolvePath(distRoot, path) ==
    IF IsAbs(path) THEN path ELSE Join(distRoot, path)

\* The distribution root: the absolute path main finds from the launcher's
\* own location, or a --dist-root of ".".
DistRoots == {Str("/srv/dist"), Str(".")}

InitSpawn ==
    /\ InitIdle
    /\ \E c \in CommandConfigs, env \in {<<>>, Str("/opt/python-3.11")},
          root \in DistRoots :
          /\ c.Executable # <<>>
          /\ call = [fn |-> "Launch", config |-> c, env |-> env, distRoot |-> root]
    /\ ret = [done |-> FALSE]

\* Step 5: cmdArgs := BuildCommandArgs(merged); cmdArgs[0] = resolvePath(cmdArgs[0]).
LaunchBuildCommand ==
    /\ call.fn = "Launch" /\ ~ret.done
    /\ LET cmdArgs == BuildCommandArgs(call.config, call.env)
       IN  ret' = [done |-> TRUE, step |-> 5,
                   cmdArgs |-> [cmdArgs EXCEPT ![1] = resolvePath(call.distRoot, cmdArgs[1])],
                   lookup |-> "none", started |-> FALSE]
    /\ UNCHANGED call
    /\ UNCHANGED runVars
    /\ UNCHANGED launchVars
    /\ UNCHANGED probeVars

\* Step 6: exec.Command looks a name without a separator up on PATH and takes
\* any other name as it is; cmd.Start finds the file or fails.
LaunchStart ==
    /\ call.fn = "Launch" /\ ret.done /\ ret.step = 5
    /\ \E found \in BOOLEAN :
          ret' = [ret EXCEPT !.step = 6, !.started = found,
                             !.lookup = IF HasSeparator(ret.cmdArgs[1])
                                        THEN "as given" ELSE "PATH"]
    /\ UNCHANGED call
    /\ UNCHANGED runVars
    /\ UNCHANGED launchVars
    /\ UNCHANGED probeVars

NextSpawn == LaunchBuildCommand \/ LaunchStart

\* Launch from the building of the command line to the start of the child.
SpawnSpec == InitSpawn /\ [][NextSpawn]_vars

\* C39 as stated: in module, script, uvicorn and gunicorn mode with an empty
\* pythonPath, the process Launch starts has argv[0] = "python3", looked up
\* on PATH.
C39_BareInterpreterName ==
    (call.fn = "Launch" /\ ret.done /\ ret.step = 6
        /\ call.config.LaunchMode \in {LaunchModeModule, LaunchModeScript,
                                       LaunchModeUvicorn, LaunchModeGunicorn}
        /\ call.config.PythonPath = <<>>)
    => (ret.cmdArgs[1] = Str("python3") /\ ret.lookup = "PATH")

(***************************************************************************)
(* The launcher binary run twice in one distribution: once in startup      *)
(* mode (doStartup) and, at any moment, in check mode (doCheck).  Both     *)
(* call Launch, of which this is the part that touches the pid file:       *)
(* spawn, WritePidFile, cmd.Wait and the deferred RemovePidFile.  The path *)
(* of the pid file depends on the service name alone.                      *)
(***************************************************************************)
\* main in startup mode: the service name comes from the flag or the manifest.
DoStartup ==
    /\ runPc["startup"] = "idle"
    /\ runPc' = [runPc EXCEPT !["startup"] = "launch"]
    /\ runName' = [runName EXCEPT !["startup"] = "svc"]
    /\ UNCHANGED <<runChild, runWrote, pidFiles, checks>>
    /\ UNCHANGED launchVars
    /\ UNCHANGED probeVars
    /\ UNCHANGED fnVars

\* main in check mode: doCheck returns 1 when service/bin/launcher-check.yml
\* is missing and calls Launch with the name of --service-name otherwise.
DoCheck ==
    /\ runPc["check"] \in {"idle", "exited"}
    /\ checks < MaxChecks
    /\ checks' = checks + 1
    /\ \E name \in ServiceNames, configured \in BOOLEAN :
          /\ runName' = [runName EXCEPT !["check"] = name]
          /\ runPc' = [runPc EXCEPT !["check"] = IF configured THEN "launch" ELSE "exited"]
    /\ runChild' = [runChild EXCEPT !["check"] = "none"]
    /\ runWrote' = [runWrote EXCEPT !["check"] = FALSE]
    /\ UNCHANGED pidFiles
    /\ UNCHANGED launchVars
    /\ UNCHANGED probeVars
    /\ UNCHANGED fnVars

\* Launch returns an error before the child runs (steps 1 to 6).
RunLaunchFail(r) ==
    /\ runPc[r] = "launch"
    /\ runPc' = [runPc EXCEPT ![r] = "exited"]
    /\ UNCHANGED <<runChild, runName, runWrote, pidFiles, checks>>
    /\ UNCHANGED launchVars
    /\ UNCHANGED probeVars
    /\ UNCHANGED fnVars

\* cmd.Start
RunSpawn(r) ==
    /\ runPc[r] = "launch"
    /\ runPc' = [runPc EXCEPT ![r] = "spawned"]
    /\ runChild' = [runChild EXCEPT ![r] = "running"]
    /\ UNCHANGED <<runName, runWrote, pidFiles, checks>>
    /\ UNCHANGED launchVars
    /\ UNCHANGED probeVars
    /\ UNCHANGED fnVars

\* WritePidFile(pid, "var/run/<name>.pid"); a failure is a warning.
RunWritePidFile(r) ==
    /\ runPc[r] = "spawned"
    /\ \E ok \in BOOLEAN :
          /\ runWrote' = [runWrote EXCEPT ![r] = ok]
          /\ pidFiles' = IF ok THEN [pidFiles EXCEPT ![runName[r]] = r] ELSE pidFiles
    /\ runPc' = [runPc EXCEPT ![r] = "waiting"]
    /\ UNCHANGED <<runChild, runName, checks>>
    /\ UNCHANGED launchVars
    /\ UNCHANGED probeVars
    /\ UNCHANGED fnVars

\* The child of the run ends.
RunChildExit(r) ==
    /\ runChild[r] = "running"
    /\ runChild' = [runChild EXCEPT ![r] = "exited"]
    /\ UNCHANGED <<runPc, runName, runWrote, pidFiles, checks>>
    /\ UNCHANGED launchVars
    /\ UNCHANGED probeVars
    /\ UNCHANGED fnVars

\* cmd.Wait returns and Launch goes on to its return.
RunWait(r) ==
    /\ runPc[r] = "waiting" /\ runChild[r] = "exited"
    /\ runPc' = [runPc EXCEPT ![r] = "returning"]
    /\ UNCHANGED <<runChild, runName, runWrote, pidFiles, checks>>
    /\ UNCHANGED launchVars
    /\ UNCHANGED probeVars
    /\ UNCHANGED fnVars

\* The deferred RemovePidFile(pidPath), and the process exits.
RunRemovePidFile(r) ==
    /\ runPc[r] = "returning"
    /\ pidFiles' = [pidFiles EXCEPT ![runName[r]] = "none"]
    /\ runPc' = [runPc EXCEPT ![r] = "exited"]
    /\ UNCHANGED <<runChild, runName, runWrote, checks>>
    /\ UNCHANGED launchVars
    /\ UNCHANGED probeVars
    /\ UNCHANGED fnVars

NextCheck ==
    \/ DoStartup
    \/ DoCheck
    \/ \E r \in Runs : RunLaunchFail(r)
    \/ \E r \in Runs : RunSpawn(r)
    \/ \E r \in Runs : RunWritePidFile(r)
    \/ \E r \in Runs : RunChildExit(r)
    \/ \E r \in Runs : RunWait(r)
    \/ \E r \in Runs : RunRemovePidFile(r)

InitCheck == InitIdle /\ NoCall

\* A supervisor and health checks of the same distribution.
CheckSpec == InitCheck /\ [][NextCheck]_vars

\* C38 as stated: while the supervisor waits for its running child, having
\* written the pid file, the file of the service is there and holds that
\* child's pid, whatever a run in check mode does.
C38_CheckLeavesPidFile ==
    (runPc["startup"] = "waiting" /\ runChild["startup"] = "running"
        /\ runWrote["startup"])
    => pidFiles[runName["startup"]] = "startup"

====
